---- MODULE Spec2Model ----
(***************************************************************************)
(* Klassy window decoration: the title-bar button (breezebutton.cpp) and   *)
(* the title-bar opacity dialog (config/titlebaropacity.cpp).              *)
(*                                                                         *)
(* Colours are QColor values: a validity flag and four 8-bit channels.     *)
(* Real-valued quantities are fixed point: the animation opacity is a      *)
(* numerator over OpacityDen, mixing weights are percentages or opacity    *)
(* fractions, pen widths are in hundredths of PenWidth::Symbol.            *)
(***************************************************************************)
EXTENDS Integers, Sequences, FiniteSets, TLC

\* number of timer steps one run of the hover animation is divided into
Steps == 2
\* number of buttons of the decoration in the multi-button specification
NumButtons == 2

\* the denominator of the fixed-point opacity: InOutQuad of k / Steps is a multiple of 1 / Steps^2
OpacityDen == Steps * Steps

VARIABLES settings, buttons, deco, dialog

vars == <<settings, buttons, deco, dialog>>

(***************************************************************************)
(* QColor and the colour helpers of KColorUtils / ColorTools               *)
(***************************************************************************)

\* QColor(): the invalid colour (its channels read as opaque black)
Invalid == [v |-> FALSE, r |-> 0, g |-> 0, b |-> 0, a |-> 255]

Rgba(r, g, b, a) == [v |-> TRUE, r |-> r, g |-> g, b |-> b, a |-> a]

Rgb(r, g, b) == Rgba(r, g, b, 255)

\* Qt::GlobalColor::white
White == Rgb(255, 255, 255)

Black == Rgb(0, 0, 0)

\* x / d rounded to the nearest integer (d > 0, x >= 0)
RoundDiv(x, d) == (2 * x + d) \div (2 * d)

\* 10000 * (i / 255) ^ 2.2 for i = 0 .. 255: the gamma curve of KColorUtils::luma
GammaTable ==
   << 0, 0, 0, 1, 1, 2, 3, 4, 5, 6, 8, 10, 12, 14, 17, 20,
      23, 26, 29, 33, 37, 41, 46, 50, 55, 60, 66, 72, 78, 84, 90, 97,
      104, 111, 119, 127, 135, 143, 152, 161, 170, 179, 189, 199, 210, 220, 231, 242,
      254, 265, 278, 290, 303, 316, 329, 342, 356, 370, 385, 399, 415, 430, 446, 461,
      478, 494, 511, 528, 546, 564, 582, 600, 619, 638, 658, 677, 697, 718, 738, 759,
      781, 802, 824, 846, 869, 892, 915, 939, 963, 987, 1011, 1036, 1062, 1087, 1113, 1139,
      1166, 1193, 1220, 1247, 1275, 1304, 1332, 1361, 1390, 1420, 1450, 1480, 1511, 1542, 1573, 1604,
      1636, 1669, 1701, 1734, 1768, 1801, 1835, 1870, 1905, 1940, 1975, 2011, 2047, 2084, 2120, 2158,
      2195, 2233, 2271, 2310, 2349, 2388, 2428, 2468, 2508, 2549, 2590, 2632, 2674, 2716, 2758, 2801,
      2845, 2888, 2932, 2977, 3021, 3066, 3112, 3158, 3204, 3250, 3297, 3345, 3392, 3440, 3489, 3537,
      3587, 3636, 3686, 3736, 3787, 3838, 3889, 3941, 3993, 4045, 4098, 4151, 4205, 4259, 4313, 4368,
      4423, 4479, 4535, 4591, 4647, 4704, 4762, 4820, 4878, 4936, 4995, 5054, 5114, 5174, 5234, 5295,
      5356, 5418, 5480, 5542, 5605, 5668, 5732, 5795, 5860, 5924, 5989, 6055, 6121, 6187, 6253, 6320,
      6388, 6456, 6524, 6592, 6661, 6730, 6800, 6870, 6941, 7012, 7083, 7155, 7227, 7299, 7372, 7445,
      7519, 7593, 7667, 7742, 7818, 7893, 7969, 8046, 8122, 8200, 8277, 8355, 8434, 8513, 8592, 8671,
      8751, 8832, 8913, 8994, 9075, 9158, 9240, 9323, 9406, 9490, 9574, 9658, 9743, 9828, 9914, 10000 >>

\* KColorUtils::luma, times 10^6: 0.2126 R + 0.7152 G + 0.0722 B on the gamma-corrected channels
Luma(c) == (2126 * GammaTable[c.r + 1] + 7152 * GammaTable[c.g + 1] + 722 * GammaTable[c.b + 1]) \div 100

\* contrastRatio = (max luma + 0.05) / (min luma + 0.05) of two lumas, below num / den
LumaRatioBelow(y1, y2, num, den) ==
   LET hi == IF y1 > y2 THEN y1 ELSE y2
       lo == IF y1 > y2 THEN y2 ELSE y1
   IN  (hi + 50000) * den < (lo + 50000) * num

\* KColorUtils::contrastRatio(c1, c2) < num / den
ContrastBelow(c1, c2, num, den) == LumaRatioBelow(Luma(c1), Luma(c2), num, den)

\* KColorUtils::mix(c1, c2, num / den): the bias-weighted mean of the two colours
\* on alpha-premultiplied channels
KMix(c1, c2, num, den) ==
   IF num <= 0 THEN c1
   ELSE IF num >= den THEN c2
   ELSE LET w1 == c1.a * (den - num)
            w2 == c2.a * num
        IN  IF w1 + w2 <= 0 THEN Rgba(0, 0, 0, 0)
            ELSE Rgba(RoundDiv(c1.r * w1 + c2.r * w2, w1 + w2),
                      RoundDiv(c1.g * w1 + c2.g * w2, w1 + w2),
                      RoundDiv(c1.b * w1 + c2.b * w2, w1 + w2),
                      RoundDiv(w1 + w2, den))

\* ColorTools::alphaMix(color, num / den): the colour with its alpha multiplied by the factor
AlphaMix(c, num, den) == [c EXCEPT !.a = RoundDiv(c.a * num, den)]

\* the one of white and black that contrasts more with a background of luma y
\* (lumas in 1/10000; the luma of black is 0, w is the luma of white)
WhiteOrBlack(y, w) == IF (w + 500) * 500 >= (y + 500) * (y + 500) THEN White ELSE Black

\* ColorTools::getHigherContrastForegroundColor(foreground, background, 2.3, out):
\* the foreground, or black/white (whichever contrasts more with the background)
\* when the foreground's contrast with the background is below the threshold
HigherContrastForeground(fg, bg) ==
   IF ContrastBelow(fg, bg, 23, 10) THEN WhiteOrBlack(Luma(bg) \div 100, Luma(White) \div 100)
   ELSE fg

(***************************************************************************)
(* Inputs of the button: its type, the colour scheme, the theme settings   *)
(***************************************************************************)

\* KDecoration2::DecorationButtonType
ButtonTypes == {"Menu", "ApplicationMenu", "OnAllDesktops", "Minimize", "Maximize", "Close",
                "ContextHelp", "Shade", "KeepBelow", "KeepAbove", "Custom"}

\* the types KDecoration2 makes checkable: isChecked() is false for every other type
CheckableTypes == {"Maximize", "OnAllDesktops", "Shade", "KeepBelow", "KeepAbove"}

\* InternalSettings::EnumBackgroundColors
BackgroundColorsValues == {"ColorsTitlebarText", "ColorsAccent", "ColorsAccentWithTrafficLights"}

\* the accent background colour settings
IsAccent(s) == s.backgroundColors \in {"ColorsAccent", "ColorsAccentWithTrafficLights"}

\* d->titleBarColor()
TitleBarColor(s) == IF s.scheme = "light" THEN Rgb(222, 224, 226) ELSE Rgb(61, 174, 233)

\* d->fontColor()
FontColor(s) == IF s.scheme = "light" THEN Rgb(35, 38, 41) ELSE Rgb(252, 252, 252)

\* g_decorationColors: the colours derived from the system colour scheme
DecorationColors(s) ==
   [ negative |-> Rgb(218, 68, 83),
     negativeSaturated |-> Rgb(237, 21, 21),
     negativeLessSaturated |-> Rgb(228, 110, 120),
     fullySaturatedNegative |-> Rgb(255, 0, 0),
     negativeReducedOpacityBackground |-> Rgba(218, 68, 83, 128),
     negativeReducedOpacityOutline |-> Rgba(237, 21, 21, 200),
     negativeReducedOpacityLessSaturatedBackground |-> Rgba(228, 110, 120, 128),
     neutral |-> Rgb(246, 116, 0),
     neutralLessSaturated |-> Rgb(240, 160, 80),
     neutralSaturated |-> Rgb(255, 100, 0),
     neutralReducedOpacityBackground |-> Rgba(246, 116, 0, 128),
     neutralReducedOpacityOutline |-> Rgba(255, 100, 0, 200),
     positive |-> Rgb(39, 174, 96),
     positiveLessSaturated |-> Rgb(100, 190, 140),
     positiveSaturated |-> Rgb(20, 190, 80),
     positiveReducedOpacityBackground |-> Rgba(39, 174, 96, 128),
     positiveReducedOpacityOutline |-> Rgba(20, 190, 80, 200),
     buttonHover |-> Rgb(61, 174, 233),
     buttonFocus |-> Rgb(29, 84, 120),
     buttonReducedOpacityBackground |-> Rgba(61, 174, 233, 128),
     buttonReducedOpacityOutline |-> Rgba(29, 84, 120, 200) ]

\* d->buttonBackgroundType(): full-height shapes paint a full-height background
ButtonBackgroundType(s) ==
   IF s.buttonShape \in {"ShapeFullHeightRectangle", "ShapeFullHeightRoundedRectangle",
                         "ShapeIntegratedRoundedRectangle"}
   THEN "FullHeight" ELSE "Small"

\* the device pixel ratios of the paint devices and of the system scale factor, in percent
DevicePixelRatios == {100, 200}


(***************************************************************************)
(* Button::foregroundColor, Button::backgroundColor, Button::outlineColor  *)
(***************************************************************************)

\* "if (flag) colour = c": a colour variable assigned under a flag, QColor() otherwise
When(flag, c) == IF flag THEN c ELSE Invalid

\* normal, hover and focus colours of a three-state palette
Palette3(n, h, f) == [normal |-> n, hover |-> h, focus |-> f]

\* Button::foregroundColor: fontColorContrastBoosted
FontColorContrastBoosted(s, backgroundContrastedColor) ==
   IF backgroundContrastedColor.v
   THEN HigherContrastForeground(FontColor(s), backgroundContrastedColor)
   ELSE FontColor(s)

\* ForegroundColorState with the hover state taken without drawIconOnHover
ForegroundColorStateHoverUnflagged(b, s) ==
   IF b.pressed /\ s.drawIconOnFocus THEN "focus"
   ELSE IF b.type \in {"KeepBelow", "KeepAbove", "Shade"} /\ b.checked THEN "focus"
   ELSE IF b.type = "OnAllDesktops" /\ b.checked
        THEN IF s.backgroundColors = "ColorsTitlebarText" /\ ~s.translucentButtonBackgrounds /\ ~b.hovered
             THEN "normal" ELSE "focus"
   ELSE IF b.running /\ s.drawIconOnHover THEN "animatedHover"
   ELSE IF b.hovered THEN "hover"
   ELSE IF s.drawIconAlways THEN "normal"
   ELSE "none"

\* Button::foregroundColor: the button colour state
ForegroundColorState(b, s) ==
   IF b.pressed /\ s.drawIconOnFocus THEN "focus"
   ELSE IF b.type \in {"KeepBelow", "KeepAbove", "Shade"} /\ b.checked THEN "focus"
   ELSE IF b.type = "OnAllDesktops" /\ b.checked
        THEN IF s.backgroundColors = "ColorsTitlebarText" /\ ~s.translucentButtonBackgrounds /\ ~b.hovered
             THEN "normal" ELSE "focus"
   ELSE IF b.pressed /\ s.drawIconOnFocus THEN "focus"
   ELSE IF b.running /\ s.drawIconOnHover THEN "animatedHover"
   ELSE IF b.hovered /\ s.drawIconOnHover THEN "hover"
   ELSE IF s.drawIconAlways THEN "normal"
   ELSE "none"

\* CloseForegroundPalette whose hover foreground turns white under the focus flag
CloseForegroundPaletteFocusFlag(s, boosted) ==
   LET whiteOnHover == IF s.drawCloseBackgroundOnFocus THEN White ELSE boosted
       whiteOnFocus == IF s.drawCloseBackgroundOnFocus THEN White ELSE boosted
   IN  IF s.redAlwaysShownClose
       THEN IF s.drawBackgroundAlways
            THEN IF s.drawCloseBackgroundAlways /\ s.backgroundColors = "ColorsTitlebarText"
                    /\ ~s.translucentButtonBackgrounds
                 THEN Palette3(TitleBarColor(s), White, White)
                 ELSE Palette3(boosted, whiteOnHover, whiteOnFocus)
            ELSE IF s.drawCloseBackgroundAlways
                 THEN Palette3(White, White, White)
                 ELSE Palette3(boosted, whiteOnHover, whiteOnFocus)
       ELSE IF s.backgroundColors # "ColorsTitlebarText"
            THEN Palette3(boosted, whiteOnHover, whiteOnFocus)
       ELSE IF s.translucentButtonBackgrounds
            THEN Palette3(boosted, whiteOnHover, whiteOnFocus)
       ELSE IF s.drawCloseBackgroundAlways
            THEN Palette3(TitleBarColor(s), White, White)
            ELSE Palette3(FontColor(s), whiteOnHover, whiteOnFocus)

\* Button::foregroundColor: the normal, hover and focus foreground of a Close button
CloseForegroundPalette(s, boosted) ==
   LET whiteOnHover == IF s.drawCloseBackgroundOnHover THEN White ELSE boosted
       whiteOnFocus == IF s.drawCloseBackgroundOnFocus THEN White ELSE boosted
   IN  IF s.redAlwaysShownClose
       THEN IF s.drawBackgroundAlways
            THEN IF s.drawCloseBackgroundAlways /\ s.backgroundColors = "ColorsTitlebarText"
                    /\ ~s.translucentButtonBackgrounds
                 THEN Palette3(TitleBarColor(s), White, White)
                 ELSE Palette3(boosted, whiteOnHover, whiteOnFocus)
            ELSE IF s.drawCloseBackgroundAlways
                 THEN Palette3(White, White, White)
                 ELSE Palette3(boosted, whiteOnHover, whiteOnFocus)
       ELSE IF s.backgroundColors # "ColorsTitlebarText"
            THEN Palette3(boosted, whiteOnHover, whiteOnFocus)
       ELSE IF s.translucentButtonBackgrounds
            THEN Palette3(boosted, whiteOnHover, whiteOnFocus)
       ELSE IF s.drawCloseBackgroundAlways
            THEN Palette3(TitleBarColor(s), White, White)
            ELSE Palette3(FontColor(s), whiteOnHover, whiteOnFocus)

\* Button::foregroundColor: the normal, hover and focus foreground of a non-Close button
OtherForegroundPalette(s, boosted) ==
   IF s.backgroundColors = "ColorsTitlebarText" /\ ~s.translucentButtonBackgrounds
   THEN IF s.drawBackgroundAlways
        THEN Palette3(TitleBarColor(s), TitleBarColor(s), TitleBarColor(s))
        ELSE Palette3(FontColor(s),
                      IF s.drawCloseBackgroundOnHover THEN TitleBarColor(s) ELSE FontColor(s),
                      IF s.drawCloseBackgroundOnFocus THEN TitleBarColor(s) ELSE FontColor(s))
   ELSE Palette3(boosted, boosted, boosted)

\* Button::foregroundColor: the colour palette to use
ForegroundPalette(b, s, backgroundContrastedColor) ==
   IF b.type = "Close"
   THEN CloseForegroundPalette(s, FontColorContrastBoosted(s, backgroundContrastedColor))
   ELSE OtherForegroundPalette(s, FontColorContrastBoosted(s, backgroundContrastedColor))

\* Button::foregroundColor: the colour of the palette the button colour state selects
ForegroundColorOf(b, pal, state) ==
   CASE state = "normal" -> pal.normal
     [] state = "animatedHover" ->
           IF b.m_preAnimationForegroundColor.v
           THEN KMix(b.m_preAnimationForegroundColor, pal.hover, b.m_opacity, OpacityDen)
           ELSE AlphaMix(pal.hover, b.m_opacity, OpacityDen)
     [] state = "hover" -> pal.hover
     [] state = "focus" -> pal.focus
     [] OTHER -> Invalid

\* Button::foregroundColor(backgroundContrastedColor)
foregroundColor(b, s, backgroundContrastedColor) ==
   ForegroundColorOf(b, ForegroundPalette(b, s, backgroundContrastedColor), ForegroundColorState(b, s))

\* Button::backgroundColor: a palette whose normal colour is drawn always, whose hover and
\* focus colours are drawn under their flags
Tiered(always, onHover, onFocus, n, h, f, hNoAlways, fNoAlways) ==
   IF always THEN Palette3(n, When(onHover, h), When(onFocus, f))
   ELSE Palette3(Invalid, When(onHover, hNoAlways), When(onFocus, fNoAlways))

\* Button::backgroundColor with g_decorationColors g: accent colours, translucent
BackgroundAccentTranslucent(b, s, g) ==
   IF b.type = "Close"
   THEN IF s.drawCloseBackgroundAlways
        THEN Palette3(IF s.redAlwaysShownClose THEN g.negativeReducedOpacityBackground
                                               ELSE g.buttonReducedOpacityBackground,
                      When(s.drawCloseBackgroundOnHover, g.negativeReducedOpacityOutline),
                      When(s.drawCloseBackgroundOnFocus, g.fullySaturatedNegative))
        ELSE Palette3(Invalid,
                      When(s.drawCloseBackgroundOnHover, g.negativeReducedOpacityBackground),
                      When(s.drawCloseBackgroundOnFocus, g.negativeReducedOpacityOutline))
   ELSE IF b.type = "Minimize" /\ s.backgroundColors = "ColorsAccentWithTrafficLights"
   THEN Tiered(s.drawBackgroundAlways, s.drawBackgroundOnHover, s.drawBackgroundOnFocus,
               g.neutralReducedOpacityBackground, g.neutralReducedOpacityOutline, g.neutral,
               g.neutralReducedOpacityBackground, g.neutralReducedOpacityOutline)
   ELSE IF b.type = "Maximize" /\ s.backgroundColors = "ColorsAccentWithTrafficLights"
   THEN Tiered(s.drawBackgroundAlways, s.drawBackgroundOnHover, s.drawBackgroundOnFocus,
               g.positiveReducedOpacityBackground, g.positiveReducedOpacityOutline, g.positive,
               g.positiveReducedOpacityBackground, g.positiveReducedOpacityOutline)
   ELSE Tiered(s.drawBackgroundAlways, s.drawBackgroundOnHover, s.drawBackgroundOnFocus,
               g.buttonReducedOpacityBackground, g.buttonReducedOpacityOutline, g.buttonFocus,
               g.buttonReducedOpacityBackground, g.buttonReducedOpacityOutline)

\* Button::backgroundColor with g_decorationColors g: accent colours, not translucent
BackgroundAccentOpaque(b, s, g) ==
   IF b.type = "Close"
   THEN IF s.drawCloseBackgroundAlways
        THEN Palette3(IF s.redAlwaysShownClose THEN g.negative
                                               ELSE KMix(TitleBarColor(s), g.buttonHover, 50, 100),
                      When(s.drawCloseBackgroundOnHover, g.negativeSaturated),
                      When(s.drawCloseBackgroundOnFocus, g.negativeLessSaturated))
        ELSE Palette3(Invalid,
                      When(s.drawCloseBackgroundOnHover, g.negative),
                      When(s.drawCloseBackgroundOnFocus, g.negativeSaturated))
   ELSE IF b.type = "Minimize" /\ s.backgroundColors = "ColorsAccentWithTrafficLights"
   THEN Tiered(s.drawBackgroundAlways, s.drawBackgroundOnHover, s.drawBackgroundOnFocus,
               g.neutralLessSaturated, g.neutral, g.neutralSaturated,
               g.neutralLessSaturated, g.neutral)
   ELSE IF b.type = "Maximize" /\ s.backgroundColors = "ColorsAccentWithTrafficLights"
   THEN Tiered(s.drawBackgroundAlways, s.drawBackgroundOnHover, s.drawBackgroundOnFocus,
               g.positiveLessSaturated, g.positive, g.positiveSaturated,
               g.positiveLessSaturated, g.positive)
   ELSE Tiered(s.drawBackgroundAlways, s.drawBackgroundOnHover, s.drawBackgroundOnFocus,
               KMix(TitleBarColor(s), g.buttonHover, 50, 100), g.buttonHover, g.buttonFocus,
               g.buttonHover, g.buttonFocus)

\* Button::backgroundColor with g_decorationColors g: titlebar text colour, translucent
BackgroundTextTranslucent(b, s, g) ==
   IF b.type = "Close"
   THEN IF s.drawCloseBackgroundAlways
        THEN IF s.redAlwaysShownClose
             THEN Palette3(g.negativeReducedOpacityBackground,
                           When(s.drawCloseBackgroundOnHover, g.negativeReducedOpacityOutline),
                           g.negativeReducedOpacityLessSaturatedBackground)
             ELSE Palette3(AlphaMix(FontColor(s), 15, 100),
                           When(s.drawCloseBackgroundOnHover, g.negativeReducedOpacityOutline),
                           When(s.drawCloseBackgroundOnFocus, g.negativeReducedOpacityBackground))
        ELSE Palette3(Invalid,
                      When(s.drawCloseBackgroundOnHover, g.negativeReducedOpacityBackground),
                      When(s.drawCloseBackgroundOnFocus, g.negativeReducedOpacityOutline))
   ELSE Tiered(s.drawBackgroundAlways, s.drawBackgroundOnHover, s.drawBackgroundOnFocus,
               AlphaMix(FontColor(s), 15, 100), AlphaMix(FontColor(s), 25, 100),
               AlphaMix(FontColor(s), 35, 100),
               AlphaMix(FontColor(s), 15, 100), AlphaMix(FontColor(s), 25, 100))

\* Button::backgroundColor with g_decorationColors g: titlebar text colour, not translucent
BackgroundTextOpaque(b, s, g) ==
   LET redHoverFocus(n) == Palette3(n, When(s.drawCloseBackgroundOnHover, g.negativeSaturated),
                                    When(s.drawCloseBackgroundOnFocus, g.negativeLessSaturated))
   IN  IF b.type = "Close"
       THEN IF s.drawBackgroundAlways
            THEN redHoverFocus(IF s.redAlwaysShownClose THEN g.negative
                               ELSE KMix(TitleBarColor(s), FontColor(s), 30, 100))
            ELSE IF s.drawCloseBackgroundAlways
            THEN redHoverFocus(IF s.redAlwaysShownClose THEN g.negative ELSE FontColor(s))
            ELSE Palette3(Invalid,
                          When(s.drawCloseBackgroundOnHover, g.negative),
                          When(s.drawCloseBackgroundOnFocus, g.negativeSaturated))
       ELSE Tiered(s.drawBackgroundAlways, s.drawBackgroundOnHover, s.drawBackgroundOnFocus,
                   KMix(TitleBarColor(s), FontColor(s), 30, 100),
                   KMix(TitleBarColor(s), FontColor(s), 60, 100), FontColor(s),
                   FontColor(s), KMix(TitleBarColor(s), FontColor(s), 30, 100))

\* Button::backgroundColor: buttonNormalColor, buttonHoverColor, buttonFocusColor
BackgroundPalette(b, s) ==
   IF IsAccent(s)
   THEN IF s.translucentButtonBackgrounds THEN BackgroundAccentTranslucent(b, s, DecorationColors(s))
        ELSE BackgroundAccentOpaque(b, s, DecorationColors(s))
   ELSE IF s.translucentButtonBackgrounds THEN BackgroundTextTranslucent(b, s, DecorationColors(s))
        ELSE BackgroundTextOpaque(b, s, DecorationColors(s))

\* BackgroundColorState with the hovered test ahead of the running animation
BackgroundColorStateHoverFirst(b, s, getNonAnimatedColor) ==
   IF b.type \in {"KeepBelow", "KeepAbove", "Shade"} /\ b.checked
   THEN IF IsAccent(s) THEN "focus" ELSE "hover"
   ELSE IF b.type = "OnAllDesktops" /\ b.checked /\ IsAccent(s) THEN "focus"
   ELSE IF b.pressed THEN "focus"
   ELSE IF b.hovered THEN "hover"
   ELSE IF b.running /\ ~getNonAnimatedColor THEN "animatedHover"
   ELSE "normal"

\* BackgroundColorState with the pressed test ahead of the checked toggle buttons
BackgroundColorStatePressFirst(b, s, getNonAnimatedColor) ==
   IF b.pressed THEN "focus"
   ELSE IF b.type \in {"KeepBelow", "KeepAbove", "Shade"} /\ b.checked
   THEN IF IsAccent(s) THEN "focus" ELSE "hover"
   ELSE IF b.type = "OnAllDesktops" /\ b.checked /\ IsAccent(s) THEN "focus"
   ELSE IF b.running /\ ~getNonAnimatedColor THEN "animatedHover"
   ELSE IF b.hovered THEN "hover"
   ELSE "normal"

\* Button::backgroundColor: the state that selects the returned colour
BackgroundColorState(b, s, getNonAnimatedColor) ==
   IF b.type \in {"KeepBelow", "KeepAbove", "Shade"} /\ b.checked
   THEN IF IsAccent(s) THEN "focus" ELSE "hover"
   ELSE IF b.type = "OnAllDesktops" /\ b.checked /\ IsAccent(s) THEN "focus"
   ELSE IF b.pressed THEN "focus"
   ELSE IF b.running /\ ~getNonAnimatedColor THEN "animatedHover"
   ELSE IF b.hovered THEN "hover"
   ELSE "normal"

\* the interpolation of the animated hover state: between the cached pre-animation
\* colour and the hover colour, by the opacity
AnimatedColor(previous, target, opacity) ==
   IF previous.v /\ target.v THEN KMix(previous, target, opacity, OpacityDen)
   ELSE IF target.v THEN AlphaMix(target, opacity, OpacityDen)
   ELSE Invalid

\* Button::backgroundColor: the colour returned and the colour output for the contrast
\* heuristic, from the palette and the state that selects in it
BackgroundColorOf(b, s, pal, state) ==
   LET basis == CASE state = "focus" -> pal.focus
                  [] state = "normal" -> pal.normal
                  [] OTHER -> pal.hover
       analyseContrastWithForeground == ~s.translucentButtonBackgrounds /\ IsAccent(s)
   IN  [ color |-> IF state = "animatedHover"
                   THEN AnimatedColor(b.m_preAnimationBackgroundColor, pal.hover, b.m_opacity)
                   ELSE basis,
         foregroundContrastedColor |->
            IF analyseContrastWithForeground /\ (state # "animatedHover" \/ pal.hover.v)
            THEN basis ELSE Invalid ]

\* Button::backgroundColor(foregroundContrastedColor, getNonAnimatedColor)
backgroundColor(b, s, getNonAnimatedColor) ==
   BackgroundColorOf(b, s, BackgroundPalette(b, s), BackgroundColorState(b, s, getNonAnimatedColor))

\* Button::outlineColor: the outline behavioural flags, OR-ed with the background
\* flags when the contrast between title bar and background is low
OutlineFlags(b, s) ==
   LET low == b.m_lowContrastBetweenTitleBarAndBackground
   IN  [ drawOutlineAlways |-> s.drawOutlineAlways \/ (low /\ s.drawBackgroundAlways),
         drawOutlineOnHover |-> s.drawOutlineOnHover \/ (low /\ s.drawBackgroundOnHover),
         drawOutlineOnFocus |-> s.drawOutlineOnFocus \/ (low /\ s.drawBackgroundOnFocus),
         drawCloseOutlineAlways |-> s.drawCloseOutlineAlways \/ (low /\ s.drawCloseBackgroundAlways),
         drawCloseOutlineOnHover |-> s.drawCloseOutlineOnHover \/ (low /\ s.drawCloseBackgroundOnHover),
         drawCloseOutlineOnFocus |-> s.drawCloseOutlineOnFocus \/ (low /\ s.drawCloseBackgroundOnFocus) ]

\* Button::outlineColor: buttonOutlineNormalColor, buttonOutlineHoverColor and
\* buttonOutlineFocusColor before the low contrast correction, with g_decorationColors g
\* and the outline flags f
OutlineBasePalette(b, s, g, f) ==
   LET close(n, hf) == Palette3(When(f.drawCloseOutlineAlways, n), When(f.drawCloseOutlineOnHover, hf),
                                When(f.drawCloseOutlineOnFocus, hf))
       other(c) == Palette3(When(f.drawOutlineAlways, c), When(f.drawOutlineOnHover, c),
                            When(f.drawOutlineOnFocus, c))
       trafficLights == s.backgroundColors = "ColorsAccentWithTrafficLights"
   IN  IF IsAccent(s)
       THEN IF s.translucentButtonBackgrounds
            THEN IF b.type = "Close"
                 THEN close(IF s.redAlwaysShownClose THEN g.negativeReducedOpacityOutline
                                                     ELSE g.buttonReducedOpacityOutline,
                            g.negativeReducedOpacityOutline)
                 ELSE IF b.type = "Minimize" /\ trafficLights THEN other(g.neutralReducedOpacityOutline)
                 ELSE IF b.type = "Maximize" /\ trafficLights THEN other(g.positiveReducedOpacityOutline)
                 ELSE other(g.buttonReducedOpacityOutline)
            ELSE IF b.type = "Close"
                 THEN close(IF s.redAlwaysShownClose THEN g.negativeSaturated ELSE g.buttonFocus,
                            g.negativeSaturated)
                 ELSE IF b.type = "Minimize" /\ trafficLights THEN other(g.neutral)
                 ELSE IF b.type = "Maximize" /\ trafficLights THEN other(g.positive)
                 ELSE other(g.buttonFocus)
       ELSE IF s.translucentButtonBackgrounds
            THEN IF b.type = "Close"
                 THEN close(IF s.redAlwaysShownClose THEN g.negativeReducedOpacityOutline
                                                     ELSE AlphaMix(FontColor(s), 25, 100),
                            g.negativeReducedOpacityOutline)
                 ELSE other(AlphaMix(FontColor(s), 25, 100))
            ELSE IF b.type = "Close"
                 THEN close(IF s.redAlwaysShownClose THEN g.negativeSaturated
                                                     ELSE KMix(TitleBarColor(s), FontColor(s), 30, 100),
                            g.negativeSaturated)
                 ELSE other(KMix(TitleBarColor(s), FontColor(s), 30, 100))

\* Button::outlineColor: low contrast correction between outline and titlebar
ContrastCorrected(c, s) ==
   IF c.v /\ ContrastBelow(c, TitleBarColor(s), 13, 10) THEN KMix(c, FontColor(s), 40, 100) ELSE c

\* Button::outlineColor: the low contrast correction of the three outline colours
CorrectedPalette(pal, s) ==
   Palette3(ContrastCorrected(pal.normal, s), ContrastCorrected(pal.hover, s),
            ContrastCorrected(pal.focus, s))

\* Button::outlineColor: the three outline colours after the low contrast correction
OutlinePalette(b, s) ==
   IF IsAccent(s)
   THEN CorrectedPalette(OutlineBasePalette(b, s, DecorationColors(s), OutlineFlags(b, s)), s)
   ELSE OutlineBasePalette(b, s, DecorationColors(s), OutlineFlags(b, s))

\* Button::outlineColor: the state that selects the returned colour
OutlineColorState(b, s, getNonAnimatedColor) ==
   IF b.checked /\ b.type \in {"KeepBelow", "KeepAbove", "Shade"} THEN "focus"
   ELSE IF b.type = "OnAllDesktops" /\ b.checked /\ IsAccent(s) THEN "focus"
   ELSE IF b.pressed THEN "focus"
   ELSE IF b.running /\ ~getNonAnimatedColor THEN "animatedHover"
   ELSE IF b.hovered THEN "hover"
   ELSE "normal"

\* Button::outlineColor: the colour of the palette the state selects
OutlineColorOf(b, pal, state) ==
   CASE state = "focus" -> pal.focus
     [] state = "animatedHover" -> AnimatedColor(b.m_preAnimationOutlineColor, pal.hover, b.m_opacity)
     [] state = "hover" -> pal.hover
     [] OTHER -> pal.normal

\* Button::outlineColor(getNonAnimatedColor)
outlineColor(b, s, getNonAnimatedColor) ==
   OutlineColorOf(b, OutlinePalette(b, s), OutlineColorState(b, s, getNonAnimatedColor))

(***************************************************************************)
(* The button object and Button::paint                                     *)
(***************************************************************************)

\* QPen: Qt::NoPen, or a pen of a colour, a width (hundredths of PenWidth::Symbol) and a cosmetic flag
NoPen == [set |-> FALSE, color |-> Invalid, width |-> 0, cosmetic |-> FALSE]

Pen(c, w, cosmetic) == [set |-> TRUE, color |-> c, width |-> w, cosmetic |-> cosmetic]

\* what a paint put on the painter: the background shape with its brush and outline,
\* the icon pen and the glyph
BlankCanvas ==
   [ painted |-> FALSE, background |-> "none", brush |-> Invalid, outlinePen |-> NoPen,
     outlineFill |-> Invalid, outlineFillWidth |-> 0, iconPen |-> NoPen, glyph |-> "none" ]

\* Button::Button: the members after construction
NewButton(type, standAlone, gtk) ==
   [ type |-> type, standAlone |-> standAlone, m_isGtkCsdButton |-> gtk,
     hovered |-> FALSE, pressed |-> FALSE, checked |-> FALSE,
     running |-> FALSE, direction |-> "Forward", currentTime |-> 0, m_opacity |-> 0,
     m_foregroundColor |-> Invalid, m_backgroundColor |-> Invalid, m_outlineColor |-> Invalid,
     m_preAnimationForegroundColor |-> Invalid, m_preAnimationBackgroundColor |-> Invalid,
     m_preAnimationOutlineColor |-> Invalid,
     m_lowContrastBetweenTitleBarAndBackground |-> FALSE,
     m_devicePixelRatio |-> 100, m_standardScaledPenWidth |-> 100,
     m_boldButtonIcons |-> FALSE, m_systemIconIsAvailable |-> FALSE,
     canvas |-> BlankCanvas ]

\* Button::setDevicePixelRatio
setDevicePixelRatio(b, s, painterDpr) ==
   IF s.isPlatformX11 \/ b.m_isGtkCsdButton THEN s.systemScaleFactor ELSE painterDpr

\* Button::setShouldDrawBoldButtonIcons
setShouldDrawBoldButtonIcons(b, s, dpr) ==
   IF b.m_isGtkCsdButton THEN FALSE
   ELSE IF s.boldButtonIcons = "BoldIconsHiDpiOnly" THEN dpr > 120
   ELSE s.boldButtonIcons = "BoldIconsBold"

\* Button::isSystemIconAvailable
isSystemIconAvailable(b) ==
   b.type \notin {"Menu", "ApplicationMenu", "OnAllDesktops", "ContextHelp", "Shade", "Custom"}

\* Button::setStandardScaledPenWidth: PenWidth::Symbol times the device pixel ratio
setStandardScaledPenWidth(dpr) == dpr

\* Button::paint: m_lowContrastBetweenTitleBarAndBackground
LowContrast(s, background) ==
   s.backgroundColors # "ColorsTitlebarText" /\ ContrastBelow(background, TitleBarColor(s), 13, 10)

\* Button::paint: m_outlineColor = this->outlineColor(), which reads the members set so far
ResolveOutline(b, s) == [b EXCEPT !.m_outlineColor = outlineColor(b, s, FALSE)]

\* Button::paint: m_backgroundColor, m_foregroundColor and the low contrast flag, from
\* the colour backgroundColor returned and the contrast colour it put out
ResolveFromBackground(b, s, bg) ==
   [b EXCEPT !.m_backgroundColor = bg.color,
             !.m_foregroundColor = foregroundColor(b, s, bg.foregroundContrastedColor),
             !.m_lowContrastBetweenTitleBarAndBackground = LowContrast(s, bg.color)]

\* ResolveColors with the low contrast flag computed before the background is
\* resolved, from the background colour of the previous paint
ResolveColorsFlagFirst(b, s) ==
   ResolveOutline([ResolveFromBackground(b, s, backgroundColor(b, s, FALSE))
                      EXCEPT !.m_lowContrastBetweenTitleBarAndBackground = LowContrast(s, b.m_backgroundColor)],
                  s)

\* ResolveColors with the outline resolved before the low contrast flag is recomputed
ResolveColorsOutlineFirst(b, s) ==
   ResolveFromBackground(ResolveOutline(b, s), s, backgroundColor(b, s, FALSE))

\* Button::paint: the three colours, resolved in the order background, foreground,
\* low contrast flag, outline
ResolveColors(b, s) ==
   ResolveOutline(ResolveFromBackground(b, s, backgroundColor(b, s, FALSE)), s)

\* the cache written by every paint
CacheColorsAlways(b) ==
   [b EXCEPT !.m_preAnimationForegroundColor = b.m_foregroundColor,
             !.m_preAnimationBackgroundColor = b.m_backgroundColor,
             !.m_preAnimationOutlineColor = b.m_outlineColor]

\* Button::paint: cache colours for future animations
CacheColors(b) ==
   IF ~b.running /\ ~b.hovered
   THEN [b EXCEPT !.m_preAnimationForegroundColor = b.m_foregroundColor,
                  !.m_preAnimationBackgroundColor = b.m_backgroundColor,
                  !.m_preAnimationOutlineColor = b.m_outlineColor]
   ELSE b

\* Button::paintFullHeightButtonBackground
paintFullHeightButtonBackground(b, s, cv) ==
   IF ~b.m_backgroundColor.v /\ ~b.m_outlineColor.v THEN cv
   ELSE LET penWidth == IF s.isPlatformX11 THEN b.m_devicePixelRatio ELSE 100
            drawOutlineUsingPath == b.m_outlineColor.v /\ s.buttonShape = "ShapeIntegratedRoundedRectangle"
            pen == IF b.m_outlineColor.v /\ ~drawOutlineUsingPath
                   THEN Pen(b.m_outlineColor, b.m_standardScaledPenWidth, TRUE) ELSE NoPen
        IN  [cv EXCEPT !.background = "FullHeight",
                       !.brush = b.m_backgroundColor,
                       !.outlinePen = pen,
                       !.outlineFill = IF drawOutlineUsingPath THEN b.m_outlineColor ELSE Invalid,
                       !.outlineFillWidth = IF drawOutlineUsingPath THEN penWidth ELSE 0]

\* Button::paintSmallSizedButtonBackground
paintSmallSizedButtonBackground(b, s, cv) ==
   IF ~b.m_backgroundColor.v /\ ~b.m_outlineColor.v THEN cv
   ELSE LET penWidth == IF s.isPlatformX11 THEN b.m_devicePixelRatio ELSE 100
            pen == IF b.m_outlineColor.v
                   THEN IF b.m_isGtkCsdButton THEN Pen(b.m_outlineColor, penWidth, FALSE)
                        ELSE Pen(b.m_outlineColor, b.m_standardScaledPenWidth, TRUE)
                   ELSE NoPen
        IN  [cv EXCEPT !.background = "Small", !.brush = b.m_backgroundColor, !.outlinePen = pen]

\* Glyph that asks for one glyph per type, whatever the checked flag
GlyphOfTypeOnly(b) ==
   CASE b.type = "Close" -> "Close"
     [] b.type = "Maximize" -> "Maximize"
     [] b.type = "Minimize" -> "Minimize"
     [] b.type = "OnAllDesktops" -> "PinOnAllDesktops"
     [] b.type = "Shade" -> "Shade"
     [] b.type = "KeepBelow" -> "KeepBehind"
     [] b.type = "KeepAbove" -> "KeepInFront"
     [] b.type = "ApplicationMenu" -> "ApplicationMenu"
     [] b.type = "ContextHelp" -> "ContextHelp"
     [] OTHER -> "none"

\* Button::drawIcon: the glyph the icon renderer is asked for
Glyph(b) ==
   CASE b.type = "Close" -> "Close"
     [] b.type = "Maximize" -> IF b.checked THEN "Restore" ELSE "Maximize"
     [] b.type = "Minimize" -> "Minimize"
     [] b.type = "OnAllDesktops" -> IF b.checked THEN "PinnedOnAllDesktops" ELSE "PinOnAllDesktops"
     [] b.type = "Shade" -> IF b.checked THEN "UnShade" ELSE "Shade"
     [] b.type = "KeepBelow" -> "KeepBehind"
     [] b.type = "KeepAbove" -> "KeepInFront"
     [] b.type = "ApplicationMenu" -> "ApplicationMenu"
     [] b.type = "ContextHelp" -> "ContextHelp"
     [] OTHER -> "none"

\* Button::drawIcon
drawIcon(b, s) ==
   LET small == b.standAlone \/ b.m_isGtkCsdButton
       cv1 == IF ~small /\ ButtonBackgroundType(s) = "FullHeight"
              THEN paintFullHeightButtonBackground(b, s, BlankCanvas) ELSE BlankCanvas
       cv2 == IF ButtonBackgroundType(s) = "Small" \/ small
              THEN paintSmallSizedButtonBackground(b, s, cv1) ELSE cv1
   IN  IF b.m_foregroundColor.v
       THEN [cv2 EXCEPT !.painted = TRUE,
                        !.iconPen = IF b.m_isGtkCsdButton THEN Pen(b.m_foregroundColor, 100, FALSE)
                                    ELSE Pen(b.m_foregroundColor, b.m_standardScaledPenWidth, TRUE),
                        !.glyph = Glyph(b)]
       ELSE [cv2 EXCEPT !.painted = TRUE]

\* Button::paint: the menu button paints the client's icon
paintMenu(b, s) ==
   LET cv == IF ButtonBackgroundType(s) = "FullHeight" /\ ~(b.standAlone \/ b.m_isGtkCsdButton)
             THEN paintFullHeightButtonBackground(b, s, BlankCanvas) ELSE BlankCanvas
   IN  [cv EXCEPT !.painted = TRUE, !.glyph = "ClientIcon"]

\* PaintSetup with setStandardScaledPenWidth called before setDevicePixelRatio, on the
\* device pixel ratio of the previous paint
PaintSetupPenWidthFirst(b, s, painterDpr) ==
   LET b1 == [b EXCEPT !.m_devicePixelRatio = setDevicePixelRatio(b, s, painterDpr),
                       !.m_standardScaledPenWidth = setStandardScaledPenWidth(b.m_devicePixelRatio)]
   IN  [b1 EXCEPT !.m_boldButtonIcons = setShouldDrawBoldButtonIcons(b1, s, b1.m_devicePixelRatio),
                  !.m_systemIconIsAvailable = s.systemIconTheme /\ isSystemIconAvailable(b1)]

\* Button::paint: the device pixel ratio, the bold icons flag, the availability of a
\* system icon and the scaled pen width, set before the colours are resolved
PaintSetup(b, s, painterDpr) ==
   LET b1 == [b EXCEPT !.m_devicePixelRatio = setDevicePixelRatio(b, s, painterDpr)]
   IN  [b1 EXCEPT !.m_boldButtonIcons = setShouldDrawBoldButtonIcons(b1, s, b1.m_devicePixelRatio),
                  !.m_systemIconIsAvailable = s.systemIconTheme /\ isSystemIconAvailable(b1),
                  !.m_standardScaledPenWidth = setStandardScaledPenWidth(b1.m_devicePixelRatio)]

\* Button::paint: the menu button paints the client's icon, every other button its icon
PaintShapes(b, s) ==
   [b EXCEPT !.canvas = IF b.type = "Menu" THEN paintMenu(b, s) ELSE drawIcon(b, s)]

\* Button::paint: the members after the paint of a painter of the given device pixel ratio
Painted(b, s, painterDpr) ==
   PaintShapes(CacheColors(ResolveColors(PaintSetup(b, s, painterDpr), s)), s)

(***************************************************************************)
(* The hover animation and the thin window outline                         *)
(***************************************************************************)

\* QEasingCurve::InOutQuad at progress k / Steps, as a numerator over OpacityDen
Ease(k) == IF 2 * k < Steps THEN 2 * k * k ELSE Steps * Steps - 2 * (Steps - k) * (Steps - k)

\* the valueChanged connection of Button::Button: setOpacity(value.toReal())
setOpacity(b, value) == [b EXCEPT !.m_opacity = value]

\* updateAnimationState that restarts a running animation from the start of its new
\* direction
updateAnimationStateRestart(b, s, hovered) ==
   IF ~(s.animationsDuration > 0) THEN b
   ELSE LET t == IF hovered THEN 0 ELSE Steps
        IN  [b EXCEPT !.direction = IF hovered THEN "Forward" ELSE "Backward",
                      !.running = TRUE, !.currentTime = t, !.m_opacity = Ease(t)]

\* updateAnimationState without the test of the animation duration
updateAnimationStateAnyDuration(b, s, hovered) ==
   LET dir == IF hovered THEN "Forward" ELSE "Backward"
   IN  IF b.running THEN [b EXCEPT !.direction = dir]
       ELSE LET t == IF hovered THEN 0 ELSE Steps
            IN  setOpacity([b EXCEPT !.direction = dir, !.running = TRUE, !.currentTime = t], Ease(t))

\* Button::updateAnimationState(hovered)
updateAnimationState(b, s, hovered) ==
   IF ~(s.animationsDuration > 0) THEN b
   ELSE LET dir == IF hovered THEN "Forward" ELSE "Backward"
        IN  IF b.running THEN [b EXCEPT !.direction = dir]
            ELSE LET t == IF hovered THEN 0 ELSE Steps
                 IN  setOpacity([b EXCEPT !.direction = dir, !.running = TRUE, !.currentTime = t], Ease(t))

\* one timer update of the running animation, d steps on: the current time moves in the
\* animation's direction, the value change reaches setOpacity, and the animation
\* stops at the end of its direction
AnimationStep(b, d) ==
   LET t == IF b.direction = "Forward"
            THEN (IF b.currentTime + d > Steps THEN Steps ELSE b.currentTime + d)
            ELSE (IF b.currentTime - d < 0 THEN 0 ELSE b.currentTime - d)
       atEnd == (b.direction = "Forward" /\ t = Steps) \/ (b.direction = "Backward" /\ t = 0)
   IN  setOpacity([b EXCEPT !.currentTime = t, !.running = ~atEnd], Ease(t))

\* Decoration::setThinWindowOutlineOverrideColor(on, color)
setThinWindowOutlineOverrideColor(d, on, color) ==
   [d EXCEPT !.thinWindowOutlineOverride = on, !.thinWindowOutlineOverrideColor = color]

\* a colour, or the fallback when the colour is not valid
ValidOr(color, fallback) == IF color.v THEN color ELSE fallback

\* Button::updateThinWindowOutlineWithButtonColor: the colour of the on message
ThinWindowOutlineColor(b, s) ==
   ValidOr(outlineColor(b, s, TRUE), backgroundColor(b, s, TRUE).color)

\* the off message sent although the button is still pressed
updateThinWindowOutlineIgnoringPress(d, bs, s, i, on) ==
   IF ~s.colorizeThinWindowOutlineWithButton \/ bs[i].standAlone THEN d
   ELSE IF on THEN setThinWindowOutlineOverrideColor(d, TRUE, ThinWindowOutlineColor(bs[i], s))
   ELSE IF \E j \in DOMAIN bs : j # i /\ (bs[j].hovered \/ bs[j].pressed) THEN d
   ELSE setThinWindowOutlineOverrideColor(d, FALSE, Invalid)

\* Button::updateThinWindowOutlineWithButtonColor(on) of button i; bs are the
\* decoration's buttons after the hover or press change
updateThinWindowOutlineWithButtonColor(d, bs, s, i, on) ==
   IF ~s.colorizeThinWindowOutlineWithButton \/ bs[i].standAlone THEN d
   ELSE IF on THEN setThinWindowOutlineOverrideColor(d, TRUE, ThinWindowOutlineColor(bs[i], s))
   ELSE IF ~bs[i].hovered /\ bs[i].pressed THEN d
   ELSE IF \E j \in DOMAIN bs : j # i /\ (bs[j].hovered \/ bs[j].pressed) THEN d
   ELSE setThinWindowOutlineOverrideColor(d, FALSE, Invalid)

(***************************************************************************)
(* Events of the button                                                    *)
(***************************************************************************)

\* hoveredChanged(hovered): updateAnimationState, then updateThinWindowOutlineWithButtonColor
HoveredChanged(i, hovered) ==
   LET bs == [buttons EXCEPT ![i] = updateAnimationState([@ EXCEPT !.hovered = hovered], settings, hovered)]
   IN  /\ buttons' = bs
       /\ deco' = updateThinWindowOutlineWithButtonColor(deco, bs, settings, i, hovered)
       /\ UNCHANGED <<settings, dialog>>

\* pressedChanged(pressed): updateThinWindowOutlineWithButtonColor
PressedChanged(i, pressed) ==
   LET bs == [buttons EXCEPT ![i].pressed = pressed]
   IN  /\ buttons' = bs
       /\ deco' = updateThinWindowOutlineWithButtonColor(deco, bs, settings, i, pressed)
       /\ UNCHANGED <<settings, dialog>>

\* the pointer enters the button
HoverEnter(i) == ~buttons[i].hovered /\ HoveredChanged(i, TRUE)

\* the pointer leaves the button
HoverLeave(i) == buttons[i].hovered /\ HoveredChanged(i, FALSE)

\* a mouse button is pressed on the button
Press(i) == buttons[i].hovered /\ ~buttons[i].pressed /\ PressedChanged(i, TRUE)

\* the mouse button is released
Release(i) == buttons[i].pressed /\ PressedChanged(i, FALSE)

\* the client state the button shows changes (maximized, on all desktops, shaded, kept above or below)
SetChecked(i) ==
   /\ buttons[i].type \in CheckableTypes
   /\ buttons' = [buttons EXCEPT ![i].checked = ~@]
   /\ UNCHANGED <<settings, deco, dialog>>

\* a timer update of the running animation
AnimationTick(i) ==
   /\ buttons[i].running
   /\ \E d \in 1 .. Steps : buttons' = [buttons EXCEPT ![i] = AnimationStep(@, d)]
   /\ UNCHANGED <<settings, deco, dialog>>

\* Button::paint, with the icon loader palette of the menu button restored afterwards
Paint(i) ==
   /\ \E dpr \in DevicePixelRatios : buttons' = [buttons EXCEPT ![i] = Painted(@, settings, dpr)]
   /\ deco' = IF buttons[i].type = "Menu" /\ deco.iconLoaderPalette # "none"
              THEN [deco EXCEPT !.iconLoaderPalette = "client"] ELSE deco
   /\ UNCHANGED <<settings, dialog>>


(***************************************************************************)
(* Specifications of the button                                            *)
(***************************************************************************)

\* the durations of d->animationsDuration(): animations disabled, or enabled
AnimationsDurations == {0, 150}

\* the settings every specification starts from; each specification varies some of them
BaseSettings ==
   [ scheme |-> "light", backgroundColors |-> "ColorsTitlebarText",
     translucentButtonBackgrounds |-> FALSE, redAlwaysShownClose |-> FALSE,
     drawBackgroundAlways |-> FALSE, drawBackgroundOnHover |-> TRUE, drawBackgroundOnFocus |-> TRUE,
     drawCloseBackgroundAlways |-> FALSE, drawCloseBackgroundOnHover |-> TRUE,
     drawCloseBackgroundOnFocus |-> TRUE,
     drawOutlineAlways |-> FALSE, drawOutlineOnHover |-> FALSE, drawOutlineOnFocus |-> FALSE,
     drawCloseOutlineAlways |-> FALSE, drawCloseOutlineOnHover |-> FALSE,
     drawCloseOutlineOnFocus |-> FALSE,
     drawIconAlways |-> TRUE, drawIconOnHover |-> TRUE, drawIconOnFocus |-> TRUE,
     colorizeThinWindowOutlineWithButton |-> TRUE,
     buttonShape |-> "ShapeSmallCircle", systemIconTheme |-> FALSE,
     boldButtonIcons |-> "BoldIconsHiDpiOnly",
     isPlatformX11 |-> FALSE, systemScaleFactor |-> 100, animationsDuration |-> 150 ]

\* the decoration: no thin window outline override, and the icon loader's custom palette
NewDecoration(iconLoaderPalette) ==
   [ thinWindowOutlineOverride |-> FALSE, thinWindowOutlineOverrideColor |-> Invalid,
     iconLoaderPalette |-> iconLoaderPalette ]

\* the dialog is not open in the specifications of the button
NoDialog == [open |-> FALSE]

\* the colour scheme and background colours pairs: the accent-coloured title bar is
\* run with the accent background colours, whose contrast with the title bar it lowers
SchemeAndColors ==
   { <<"light", bc>> : bc \in BackgroundColorsValues }
      \cup { <<"accent", bc>> : bc \in {"ColorsAccent", "ColorsAccentWithTrafficLights"} }

\* the settings of the single-button specification: an X11 session with every colour
\* setting, and the always/hover flags of background and outline varied (the Close
\* flags follow the general ones)
SpecSettings ==
   { [BaseSettings EXCEPT !.scheme = sb[1], !.backgroundColors = sb[2],
                          !.translucentButtonBackgrounds = tr,
                          !.drawBackgroundAlways = ba, !.drawCloseBackgroundAlways = ba,
                          !.drawBackgroundOnHover = bh, !.drawCloseBackgroundOnHover = bh,
                          !.drawOutlineOnHover = oh, !.drawCloseOutlineOnHover = oh,
                          !.animationsDuration = du,
                          !.isPlatformX11 = TRUE] :
        sb \in SchemeAndColors, tr \in BOOLEAN,
        ba \in BOOLEAN, bh \in BOOLEAN, oh \in BOOLEAN, du \in AnimationsDurations }

\* the button types of the single-button specification: Close, the menu, a plain
\* button and the checkable buttons the resolvers tell apart
SpecButtonTypes == {"Close", "Menu", "Minimize", "Maximize", "OnAllDesktops", "KeepAbove"}

\* a decoration with one button
Init ==
   /\ settings \in SpecSettings
   /\ \E t \in SpecButtonTypes : buttons = [i \in {1} |-> NewButton(t, FALSE, FALSE)]
   /\ deco = NewDecoration("none")
   /\ dialog = NoDialog

Next ==
   \/ \E i \in DOMAIN buttons : HoverEnter(i)
   \/ \E i \in DOMAIN buttons : HoverLeave(i)
   \/ \E i \in DOMAIN buttons : Press(i)
   \/ \E i \in DOMAIN buttons : Release(i)
   \/ \E i \in DOMAIN buttons : SetChecked(i)
   \/ \E i \in DOMAIN buttons : AnimationTick(i)
   \/ \E i \in DOMAIN buttons : Paint(i)

Spec == Init /\ [][Next]_vars


\* the settings of the two-button specification: animations enabled; the title bar
\* text colours on the light scheme with backgrounds on hover, and the accent colours
\* on the accent title bar with backgrounds drawn always
PairSettings ==
   { [BaseSettings EXCEPT !.scheme = sb[1], !.backgroundColors = sb[2],
                          !.drawBackgroundAlways = sb[3], !.drawCloseBackgroundAlways = sb[3],
                          !.colorizeThinWindowOutlineWithButton = FALSE,
                          !.isPlatformX11 = TRUE] :
        sb \in {<<"light", "ColorsTitlebarText", FALSE>>, <<"accent", "ColorsAccent", TRUE>>} }

\* two buttons of one type on decorations with the same settings
InitPair ==
   /\ settings \in PairSettings
   /\ \E t \in {"Close", "Minimize"} : buttons = [i \in {"a", "b"} |-> NewButton(t, FALSE, FALSE)]
   /\ deco = NewDecoration("none")
   /\ dialog = NoDialog

\* the events of buttons that are not checkable
NextPair ==
   \/ \E i \in DOMAIN buttons : HoverEnter(i)
   \/ \E i \in DOMAIN buttons : HoverLeave(i)
   \/ \E i \in DOMAIN buttons : Press(i)
   \/ \E i \in DOMAIN buttons : Release(i)
   \/ \E i \in DOMAIN buttons : AnimationTick(i)
   \/ \E i \in DOMAIN buttons : Paint(i)

SpecPair == InitPair /\ [][NextPair]_vars


\* the settings of the painting specification: animations disabled, a small, a full
\* height and the integrated shape, X11 and Wayland sessions of either scale factor,
\* icons and outlines drawn always or on hover and press only
PaintSettings ==
   { [BaseSettings EXCEPT !.buttonShape = sh, !.isPlatformX11 = x11, !.systemScaleFactor = sc,
                          !.drawIconAlways = ia,
                          !.drawOutlineAlways = oa, !.drawCloseOutlineAlways = oa,
                          !.colorizeThinWindowOutlineWithButton = FALSE,
                          !.animationsDuration = 0] :
        sh \in {"ShapeSmallCircle", "ShapeFullHeightRectangle", "ShapeIntegratedRoundedRectangle"},
        x11 \in BOOLEAN, sc \in DevicePixelRatios, ia \in BOOLEAN, oa \in BOOLEAN }

\* one button of any type: in a decoration, standalone, or a GTK CSD button
InitPaint ==
   /\ settings \in PaintSettings
   /\ \E t \in ButtonTypes, sa \in BOOLEAN, gtk \in BOOLEAN :
         buttons = [i \in {1} |-> NewButton(t, sa, gtk)]
   /\ deco = NewDecoration("none")
   /\ dialog = NoDialog

\* the events of a button whose animation is disabled
NextPaint ==
   \/ \E i \in DOMAIN buttons : HoverEnter(i)
   \/ \E i \in DOMAIN buttons : HoverLeave(i)
   \/ \E i \in DOMAIN buttons : Press(i)
   \/ \E i \in DOMAIN buttons : Release(i)
   \/ \E i \in DOMAIN buttons : SetChecked(i)
   \/ \E i \in DOMAIN buttons : Paint(i)

SpecPaint == InitPaint /\ [][NextPaint]_vars


\* the settings of the decoration specification: the thin window outline takes the
\* colour of the hovered or pressed button, animations disabled
DecoSettings ==
   { [BaseSettings EXCEPT !.scheme = sb[1], !.backgroundColors = sb[2],
                          !.translucentButtonBackgrounds = tr,
                          !.colorizeThinWindowOutlineWithButton = TRUE,
                          !.isPlatformX11 = TRUE, !.animationsDuration = 0] :
        sb \in SchemeAndColors, tr \in BOOLEAN }

\* a decoration with NumButtons buttons, none of them standalone
InitDeco ==
   /\ settings \in DecoSettings
   /\ buttons \in [1 .. NumButtons -> {NewButton(t, FALSE, FALSE) : t \in {"Close", "Minimize", "Maximize"}}]
   /\ deco = NewDecoration("none")
   /\ dialog = NoDialog

\* the hover and press changes of the decoration's buttons
NextDeco ==
   \/ \E i \in DOMAIN buttons : HoverEnter(i)
   \/ \E i \in DOMAIN buttons : HoverLeave(i)
   \/ \E i \in DOMAIN buttons : Press(i)
   \/ \E i \in DOMAIN buttons : Release(i)

SpecDeco == InitDeco /\ [][NextDeco]_vars


\* one button with animations enabled
InitLive ==
   /\ settings \in PairSettings
   /\ \E t \in {"Close", "Minimize"} : buttons = [i \in {1} |-> NewButton(t, FALSE, FALSE)]
   /\ deco = NewDecoration("none")
   /\ dialog = NoDialog

NextLive ==
   \/ \E i \in DOMAIN buttons : HoverEnter(i)
   \/ \E i \in DOMAIN buttons : HoverLeave(i)
   \/ \E i \in DOMAIN buttons : Press(i)
   \/ \E i \in DOMAIN buttons : Release(i)
   \/ \E i \in DOMAIN buttons : AnimationTick(i)
   \/ \E i \in DOMAIN buttons : Paint(i)

\* the timer of a running QVariantAnimation keeps firing: an animation that stays
\* running gets its next update
SpecLive ==
   InitLive /\ [][NextLive]_vars /\ WF_vars(\E i \in DOMAIN buttons : AnimationTick(i))


\* one button of a decoration whose thin window outline takes the button's colour: its
\* hover and press changes and its paints, animations disabled
InitOutline ==
   /\ settings \in DecoSettings
   /\ \E t \in ButtonTypes : buttons = [i \in {1} |-> NewButton(t, FALSE, FALSE)]
   /\ deco = NewDecoration("none")
   /\ dialog = NoDialog

NextOutline ==
   \/ \E i \in DOMAIN buttons : HoverEnter(i)
   \/ \E i \in DOMAIN buttons : HoverLeave(i)
   \/ \E i \in DOMAIN buttons : Press(i)
   \/ \E i \in DOMAIN buttons : Release(i)
   \/ \E i \in DOMAIN buttons : Paint(i)

SpecOutline == InitOutline /\ [][NextOutline]_vars


\* the application's icon loader before the decoration paints: no custom palette, or a
\* custom palette of the application
IconLoaderPalettes == {"none", "app"}

\* a Menu button in a decoration, standalone, or a GTK CSD button, with either state of
\* the global icon loader
InitMenu ==
   /\ settings \in PaintSettings
   /\ \E sa \in BOOLEAN, gtk \in BOOLEAN : buttons = [i \in {1} |-> NewButton("Menu", sa, gtk)]
   /\ \E p \in IconLoaderPalettes : deco = NewDecoration(p)
   /\ dialog = NoDialog

\* the events of the menu button, animations disabled
NextMenu ==
   \/ \E i \in DOMAIN buttons : HoverEnter(i)
   \/ \E i \in DOMAIN buttons : HoverLeave(i)
   \/ \E i \in DOMAIN buttons : Press(i)
   \/ \E i \in DOMAIN buttons : Release(i)
   \/ \E i \in DOMAIN buttons : Paint(i)

SpecMenu == InitMenu /\ [][NextMenu]_vars


\* the settings of the resolver specification. One family varies what the background
\* and foreground palettes read: colours, translucency, the always red Close button, and
\* the always, hover and focus background flags of Close and of the other buttons, with
\* animations disabled. The other family varies the icon flags, with animations
\* disabled and enabled
ResolveSettings ==
   { [BaseSettings EXCEPT !.scheme = sb[1], !.backgroundColors = sb[2],
                          !.translucentButtonBackgrounds = tr, !.redAlwaysShownClose = red,
                          !.drawBackgroundAlways = ba, !.drawCloseBackgroundAlways = cba,
                          !.drawBackgroundOnHover = bh, !.drawCloseBackgroundOnHover = bh,
                          !.drawBackgroundOnFocus = bf, !.drawCloseBackgroundOnFocus = cbf,
                          !.colorizeThinWindowOutlineWithButton = FALSE,
                          !.isPlatformX11 = TRUE, !.animationsDuration = 0] :
        sb \in SchemeAndColors, tr \in BOOLEAN, red \in BOOLEAN, ba \in BOOLEAN, cba \in BOOLEAN,
        bh \in BOOLEAN, bf \in BOOLEAN, cbf \in BOOLEAN }
   \cup
   { [BaseSettings EXCEPT !.scheme = sb[1], !.backgroundColors = sb[2],
                          !.drawIconAlways = ia, !.drawIconOnHover = ih, !.drawIconOnFocus = if,
                          !.colorizeThinWindowOutlineWithButton = FALSE,
                          !.isPlatformX11 = TRUE, !.animationsDuration = du] :
        sb \in SchemeAndColors, ia \in BOOLEAN, ih \in BOOLEAN, if \in BOOLEAN,
        du \in AnimationsDurations }

\* one button of any type in a decoration
InitResolve ==
   /\ settings \in ResolveSettings
   /\ \E t \in ButtonTypes : buttons = [i \in {1} |-> NewButton(t, FALSE, FALSE)]
   /\ deco = NewDecoration("none")
   /\ dialog = NoDialog

NextResolve ==
   \/ \E i \in DOMAIN buttons : HoverEnter(i)
   \/ \E i \in DOMAIN buttons : HoverLeave(i)
   \/ \E i \in DOMAIN buttons : Press(i)
   \/ \E i \in DOMAIN buttons : Release(i)
   \/ \E i \in DOMAIN buttons : SetChecked(i)
   \/ \E i \in DOMAIN buttons : AnimationTick(i)
   \/ \E i \in DOMAIN buttons : Paint(i)

SpecResolve == InitResolve /\ [][NextResolve]_vars


(***************************************************************************)
(* The title-bar opacity dialog (config/titlebaropacity.cpp)               *)
(***************************************************************************)

\* the values a user gives an opacity slider, in percent
OpacityValues == {50, 100}

\* the alpha of a title bar colour of the system colour scheme: translucent or opaque
SchemeAlphas == {204, 255}

\* the entries of the TitleBarOpacity group InternalSettings::setDefaults() restores
DefaultInternalSettings ==
   [ activeTitlebarOpacity |-> 100, inactiveTitlebarOpacity |-> 100,
     overrideActiveTitleBarOpacity |-> FALSE, overrideInactiveTitleBarOpacity |-> FALSE,
     opaqueMaximizedTitlebars |-> TRUE, blurTransparentTitlebars |-> TRUE,
     applyOpacityToHeader |-> TRUE ]

\* m_internalSettings before the first load: a null pointer
NullSettings == [null |-> TRUE]

\* TitleBarOpacity::TitleBarOpacity: the dialog over a configuration and a colour
\* scheme: widgets as set up from the form, nothing loaded, Apply disabled
NewDialog(config, activeAlpha, inactiveAlpha) ==
   [ open |-> TRUE, config |-> config,
     schemeAlpha |-> [active |-> activeAlpha, inactive |-> inactiveAlpha],
     ui |-> DefaultInternalSettings, m_internalSettings |-> NullSettings,
     m_translucentActiveSchemeColor |-> FALSE, m_translucentInactiveSchemeColor |-> FALSE,
     m_activeSchemeColorAlpha |-> 255, m_inactiveSchemeColorAlpha |-> 255,
     m_changed |-> FALSE, m_loading |-> FALSE, m_loaded |-> FALSE,
     m_defaultsPressed |-> FALSE ]

\* the int a slider's setValue receives from alphaF() * 100
SchemeOpacity(alpha) == (alpha * 100) \div 255

\* TitleBarOpacity::getTitlebarOpacityFromColorScheme
getTitlebarOpacityFromColorScheme(d) ==
   [d EXCEPT !.m_translucentActiveSchemeColor = d.schemeAlpha.active # 255,
             !.m_translucentInactiveSchemeColor = d.schemeAlpha.inactive # 255,
             !.m_activeSchemeColorAlpha = d.schemeAlpha.active,
             !.m_inactiveSchemeColorAlpha = d.schemeAlpha.inactive]

\* the value of an opacity slider: a translucent scheme colour that is not overridden
\* takes the slider over
SliderValue(translucent, overrideChecked, alpha, value) ==
   IF translucent /\ ~overrideChecked THEN SchemeOpacity(alpha) ELSE value

\* the sliders a translucent scheme colour that is not overridden takes over, set to the
\* scheme opacity
SlidersFromScheme(d) ==
   [d EXCEPT !.ui.activeTitlebarOpacity =
                SliderValue(d.m_translucentActiveSchemeColor, d.ui.overrideActiveTitleBarOpacity,
                            d.m_activeSchemeColorAlpha, @),
             !.ui.inactiveTitlebarOpacity =
                SliderValue(d.m_translucentInactiveSchemeColor, d.ui.overrideInactiveTitleBarOpacity,
                            d.m_inactiveSchemeColorAlpha, @)]

\* the active opacity slider is enabled
ActiveOpacityEnabled(d) ==
   ~(d.m_translucentActiveSchemeColor /\ ~d.ui.overrideActiveTitleBarOpacity)

\* the inactive opacity slider is enabled
InactiveOpacityEnabled(d) ==
   ~(d.m_translucentInactiveSchemeColor /\ ~d.ui.overrideInactiveTitleBarOpacity)

\* the three transparency checkboxes are enabled
TransparencyOptionsEnabled(d) ==
   d.ui.activeTitlebarOpacity # 100 \/ d.ui.inactiveTitlebarOpacity # 100

\* TitleBarOpacity::setChanged (setApplyButtonState enables Apply with m_changed)
setChanged(d, value) == [d EXCEPT !.m_changed = value]

\* the modified flag TitleBarOpacity::updateChanged computes
Modified(ui, s, translucentActive, translucentInactive) ==
   IF ~translucentActive /\ ui.activeTitlebarOpacity # s.activeTitlebarOpacity THEN TRUE
   ELSE IF ~translucentInactive /\ ui.inactiveTitlebarOpacity # s.inactiveTitlebarOpacity THEN TRUE
   ELSE IF translucentActive /\ ui.overrideActiveTitleBarOpacity
           /\ ui.activeTitlebarOpacity # s.activeTitlebarOpacity THEN TRUE
   ELSE IF translucentInactive /\ ui.overrideInactiveTitleBarOpacity
           /\ ui.inactiveTitlebarOpacity # s.inactiveTitlebarOpacity THEN TRUE
   ELSE IF translucentActive
           /\ ui.overrideActiveTitleBarOpacity # s.overrideActiveTitleBarOpacity THEN TRUE
   ELSE IF translucentInactive
           /\ ui.overrideInactiveTitleBarOpacity # s.overrideInactiveTitleBarOpacity THEN TRUE
   ELSE IF ui.opaqueMaximizedTitlebars # s.opaqueMaximizedTitlebars THEN TRUE
   ELSE IF ui.blurTransparentTitlebars # s.blurTransparentTitlebars THEN TRUE
   ELSE ui.applyOpacityToHeader # s.applyOpacityToHeader

\* TitleBarOpacity::updateChanged
updateChanged(d) ==
   IF d.m_internalSettings = NullSettings \/ d.m_loading THEN d
   ELSE setChanged(d, Modified(d.ui, d.m_internalSettings, d.m_translucentActiveSchemeColor,
                               d.m_translucentInactiveSchemeColor))

\* the updateChanged slot of the widgets: every setValue and setChecked that changes a
\* widget emits valueChanged or toggled, which runs updateChanged at once; the last run
\* sees the widgets as the assignments left them. Assignments that change no widget
\* emit nothing
WidgetSlots(before, after) == IF after.ui # before.ui THEN updateChanged(after) ELSE after

\* TitleBarOpacity::setEnabledTransparentTitlebarOptions: the values it sets, with the
\* slot of a slider it changes; what it enables and shows follows from these values and
\* is given by the operators ActiveOpacityEnabled, InactiveOpacityEnabled and
\* TransparencyOptionsEnabled
setEnabledTransparentTitlebarOptions(d) == WidgetSlots(d, SlidersFromScheme(d))

\* the widget values TitleBarOpacity::loadMain assigns from m_internalSettings
AssignUi(d, s) ==
   [d EXCEPT !.ui =
      [ overrideActiveTitleBarOpacity |-> s.overrideActiveTitleBarOpacity,
        overrideInactiveTitleBarOpacity |-> s.overrideInactiveTitleBarOpacity,
        activeTitlebarOpacity |->
           SliderValue(d.m_translucentActiveSchemeColor, s.overrideActiveTitleBarOpacity,
                       d.m_activeSchemeColorAlpha, s.activeTitlebarOpacity),
        inactiveTitlebarOpacity |->
           SliderValue(d.m_translucentInactiveSchemeColor, s.overrideInactiveTitleBarOpacity,
                       d.m_inactiveSchemeColorAlpha, s.inactiveTitlebarOpacity),
        opaqueMaximizedTitlebars |-> s.opaqueMaximizedTitlebars,
        blurTransparentTitlebars |-> s.blurTransparentTitlebars,
        applyOpacityToHeader |-> s.applyOpacityToHeader ]]

\* the end of TitleBarOpacity::loadMain
LoadFinished(d, assignUiValuesOnly) ==
   IF assignUiValuesOnly THEN d
   ELSE [setChanged(d, FALSE) EXCEPT !.m_loading = FALSE, !.m_loaded = TRUE]

\* the start of TitleBarOpacity::loadMain: fresh settings read from the configuration
LoadStarted(d, assignUiValuesOnly) ==
   IF assignUiValuesOnly THEN d
   ELSE [d EXCEPT !.m_loading = TRUE, !.m_internalSettings = d.config]

\* the widgets assigned from the settings the dialog holds, the sliders normalised, and
\* the slots of the widgets the assignments changed
AssignFromSettings(d) ==
   WidgetSlots(d, setEnabledTransparentTitlebarOptions(AssignUi(d, d.m_internalSettings)))

\* TitleBarOpacity::loadMain. While m_loading is set the updateChanged slot returns at
\* once; with assignUiValuesOnly it recomputes m_changed from the assigned widgets
loadMain(d, assignUiValuesOnly) ==
   LoadFinished(
      AssignFromSettings(getTitlebarOpacityFromColorScheme(LoadStarted(d, assignUiValuesOnly))),
      assignUiValuesOnly)

\* the inactive opacity is written under the condition of the active title bar
\* (source line 118)
WritesInactiveOpacity(d) ==
   ~d.m_translucentInactiveSchemeColor
      \/ (d.m_translucentActiveSchemeColor /\ d.ui.overrideActiveTitleBarOpacity)

\* the active opacity is written when its scheme colour is opaque or overridden
WritesActiveOpacity(d) ==
   ~d.m_translucentActiveSchemeColor
      \/ (d.m_translucentActiveSchemeColor /\ d.ui.overrideActiveTitleBarOpacity)

\* the settings TitleBarOpacity::save stores: those of the configuration with the
\* modifications of the widgets
SavedSettings(d, s) ==
   [ overrideActiveTitleBarOpacity |->
        IF d.m_translucentActiveSchemeColor THEN d.ui.overrideActiveTitleBarOpacity
        ELSE s.overrideActiveTitleBarOpacity,
     overrideInactiveTitleBarOpacity |->
        IF d.m_translucentInactiveSchemeColor THEN d.ui.overrideInactiveTitleBarOpacity
        ELSE s.overrideInactiveTitleBarOpacity,
     activeTitlebarOpacity |->
        IF WritesActiveOpacity(d) THEN d.ui.activeTitlebarOpacity ELSE s.activeTitlebarOpacity,
     inactiveTitlebarOpacity |->
        IF WritesInactiveOpacity(d) THEN d.ui.inactiveTitlebarOpacity ELSE s.inactiveTitlebarOpacity,
     opaqueMaximizedTitlebars |-> d.ui.opaqueMaximizedTitlebars,
     blurTransparentTitlebars |-> d.ui.blurTransparentTitlebars,
     applyOpacityToHeader |-> d.ui.applyOpacityToHeader ]

\* the settings object written to the configuration
Stored(d, s) == [d EXCEPT !.m_internalSettings = s, !.config = s]

\* TitleBarOpacity::save
save(d) == setChanged(Stored(d, SavedSettings(d, d.config)), FALSE)

\* TitleBarOpacity::isDefaults: the TitleBarOpacity group has no keys, the
\* configuration keeping a key for every entry that is not at its default
isDefaults(d) == d.config = DefaultInternalSettings

\* the end of TitleBarOpacity::defaults
DefaultsFinished(d) == [setChanged(d, ~isDefaults(d)) EXCEPT !.m_defaultsPressed = TRUE]

\* TitleBarOpacity::defaults
defaults(d) ==
   DefaultsFinished(loadMain([d EXCEPT !.m_internalSettings = DefaultInternalSettings], TRUE))

\* the slots of a slider's valueChanged and of an override checkbox's toggled, in the
\* order of connection: updateChanged, then setEnabledTransparentTitlebarOptions,
\* whose setValue emits valueChanged again when it changes a slider
ValueSlots(d) == setEnabledTransparentTitlebarOptions(updateChanged(d))

\* load(): the dialog is shown, Reset is clicked, or the dialog is rejected
Load ==
   /\ dialog' = loadMain(dialog, FALSE)
   /\ UNCHANGED <<settings, buttons, deco>>

\* TitleBarOpacity::event: the colour scheme changed and the palette change reloads
PaletteChange ==
   /\ dialog.m_loaded
   /\ \E a \in SchemeAlphas, i \in SchemeAlphas :
         /\ <<a, i>> # <<dialog.schemeAlpha.active, dialog.schemeAlpha.inactive>>
         /\ dialog' = loadMain([dialog EXCEPT !.schemeAlpha = [active |-> a, inactive |-> i]], FALSE)
   /\ UNCHANGED <<settings, buttons, deco>>

\* Restore Defaults is clicked
RestoreDefaults ==
   /\ dialog.m_loaded
   /\ dialog' = defaults(dialog)
   /\ UNCHANGED <<settings, buttons, deco>>

\* Apply is clicked: the button is enabled while m_changed is set
Apply ==
   /\ dialog.m_loaded /\ dialog.m_changed
   /\ dialog' = save(dialog)
   /\ UNCHANGED <<settings, buttons, deco>>

\* TitleBarOpacity::accept: OK is clicked in the shown dialog, which load() filled; it
\* saves whether or not Apply is enabled
Accept ==
   /\ dialog.m_loaded
   /\ dialog' = save(dialog)
   /\ UNCHANGED <<settings, buttons, deco>>

\* the user moves the enabled active opacity slider
SetActiveOpacity ==
   /\ dialog.m_loaded /\ ActiveOpacityEnabled(dialog)
   /\ \E v \in OpacityValues \ {dialog.ui.activeTitlebarOpacity} :
         dialog' = ValueSlots([dialog EXCEPT !.ui.activeTitlebarOpacity = v])
   /\ UNCHANGED <<settings, buttons, deco>>

\* the user moves the enabled inactive opacity slider
SetInactiveOpacity ==
   /\ dialog.m_loaded /\ InactiveOpacityEnabled(dialog)
   /\ \E v \in OpacityValues \ {dialog.ui.inactiveTitlebarOpacity} :
         dialog' = ValueSlots([dialog EXCEPT !.ui.inactiveTitlebarOpacity = v])
   /\ UNCHANGED <<settings, buttons, deco>>

\* the user toggles the override checkbox of the active title bar, shown while the
\* active scheme colour is translucent
ToggleOverrideActive ==
   /\ dialog.m_loaded /\ dialog.m_translucentActiveSchemeColor
   /\ dialog' = ValueSlots([dialog EXCEPT !.ui.overrideActiveTitleBarOpacity = ~@])
   /\ UNCHANGED <<settings, buttons, deco>>

\* the user toggles the override checkbox of the inactive title bar
ToggleOverrideInactive ==
   /\ dialog.m_loaded /\ dialog.m_translucentInactiveSchemeColor
   /\ dialog' = ValueSlots([dialog EXCEPT !.ui.overrideInactiveTitleBarOpacity = ~@])
   /\ UNCHANGED <<settings, buttons, deco>>

\* the user toggles one of the enabled transparency checkboxes
ToggleOption ==
   /\ dialog.m_loaded /\ TransparencyOptionsEnabled(dialog)
   /\ \E o \in {"opaqueMaximizedTitlebars", "blurTransparentTitlebars", "applyOpacityToHeader"} :
         dialog' = updateChanged([dialog EXCEPT !.ui[o] = ~@])
   /\ UNCHANGED <<settings, buttons, deco>>

\* the configurations the dialog is opened over
DialogConfigs ==
   { [DefaultInternalSettings EXCEPT !.activeTitlebarOpacity = a, !.inactiveTitlebarOpacity = i,
                                     !.overrideActiveTitleBarOpacity = oa,
                                     !.overrideInactiveTitleBarOpacity = oi] :
        a \in OpacityValues, i \in OpacityValues, oa \in BOOLEAN, oi \in BOOLEAN }

\* the dialog constructed over a configuration and a colour scheme; no button
InitDialog ==
   /\ settings = BaseSettings
   /\ buttons = <<>>
   /\ deco = NewDecoration("none")
   /\ \E c \in DialogConfigs, a \in SchemeAlphas, i \in SchemeAlphas : dialog = NewDialog(c, a, i)

NextDialog ==
   \/ Load
   \/ PaletteChange
   \/ RestoreDefaults
   \/ Apply
   \/ Accept
   \/ SetActiveOpacity
   \/ SetInactiveOpacity
   \/ ToggleOverrideActive
   \/ ToggleOverrideInactive
   \/ ToggleOption

SpecDialog == InitDialog /\ [][NextDialog]_vars


(***************************************************************************)
(* Properties                                                              *)
(***************************************************************************)

\* the inputs the colour resolver is said to depend on: type and interaction state
\* (the settings are those of the one decoration)
SameInputs(a, b) ==
   a.type = b.type /\ a.hovered = b.hovered /\ a.pressed = b.pressed /\ a.checked = b.checked

\* the three colours of a button
Colors3(b) == <<b.m_foregroundColor, b.m_backgroundColor, b.m_outlineColor>>

\* the colours foregroundColor, backgroundColor and outlineColor return to a paint of
\* the button
PaintColors(b, s) == Colors3(ResolveColors(b, s))

\* C1 as stated: two buttons with the same type, the same hovered, pressed and checked
\* flags and the same settings get the same three colours from the resolvers, whatever
\* events each went through
C1_PureFunctionOfTypeStateSettings ==
   \A i, j \in DOMAIN buttons :
      SameInputs(buttons[i], buttons[j])
         => PaintColors(buttons[i], settings) = PaintColors(buttons[j], settings)

\* C1 amended: two buttons with the same type, flags and settings whose hover animations
\* are both stopped get the same three colours resolved by a paint, whatever events each
\* went through (opacity, cached colours and the low contrast flag of earlier paints
\* have no influence)
C1_PureWhenNotAnimating ==
   \A i, j \in DOMAIN buttons :
      (SameInputs(buttons[i], buttons[j]) /\ ~buttons[i].running /\ ~buttons[j].running)
         => PaintColors(buttons[i], settings) = PaintColors(buttons[j], settings)

\* two hovered buttons with stopped animations whose earlier paints left different
\* backgrounds, cached colours and low contrast flags
C1_Witness ==
   \E i, j \in DOMAIN buttons :
      /\ SameInputs(buttons[i], buttons[j]) /\ buttons[i].hovered
      /\ ~buttons[i].running /\ ~buttons[j].running
      /\ buttons[i].m_opacity = OpacityDen
      /\ buttons[i].canvas.painted /\ buttons[j].canvas.painted
      /\ buttons[i].m_backgroundColor # buttons[j].m_backgroundColor
      /\ buttons[i].m_preAnimationBackgroundColor # buttons[j].m_preAnimationBackgroundColor
      /\ buttons[i].m_lowContrastBetweenTitleBarAndBackground
            # buttons[j].m_lowContrastBetweenTitleBarAndBackground

\* a step that is a paint of button i: of the steps of a button only Button::paint
\* leaves its interaction state and its animation alone
PaintStep(i) ==
   /\ buttons'[i] # buttons[i]
   /\ buttons'[i].hovered = buttons[i].hovered /\ buttons'[i].pressed = buttons[i].pressed
   /\ buttons'[i].checked = buttons[i].checked /\ buttons'[i].running = buttons[i].running
   /\ buttons'[i].currentTime = buttons[i].currentTime
   /\ buttons'[i].direction = buttons[i].direction

\* no state of higher priority than the animated hover applies
AnimatedHoverApplies(b, s) ==
   /\ b.running /\ ~b.pressed
   /\ ~(b.checked /\ b.type \in {"KeepBelow", "KeepAbove", "Shade"})
   /\ ~(b.checked /\ b.type = "OnAllDesktops" /\ IsAccent(s))

\* the interpolation C2 describes, between a previous and a target colour
Interpolated(previous, target, opacity) ==
   IF ~target.v THEN Invalid
   ELSE IF ~previous.v THEN [target EXCEPT !.a = RoundDiv(target.a * opacity, OpacityDen)]
   ELSE IF opacity = 0 THEN previous
   ELSE IF opacity = OpacityDen THEN target
   ELSE KMix(previous, target, opacity, OpacityDen)

\* C2: a paint during the hover animation, with no state of higher priority, resolves
\* background and outline as the interpolation by the opacity between the cached
\* pre-animation colour and the hover colour (the previous colour at opacity 0, the hover
\* colour at opacity 1; the hover colour with scaled alpha when the previous is invalid;
\* invalid when the hover colour is invalid)
C2_AnimatedHoverInterpolates ==
   [][\A i \in DOMAIN buttons :
         (PaintStep(i) /\ AnimatedHoverApplies(buttons[i], settings))
            => LET b == buttons[i]
                   p == buttons'[i]
               IN  /\ p.m_backgroundColor
                         = Interpolated(b.m_preAnimationBackgroundColor,
                                        BackgroundPalette(b, settings).hover, b.m_opacity)
                   /\ p.m_outlineColor
                         = Interpolated(b.m_preAnimationOutlineColor,
                                        OutlinePalette(p, settings).hover, b.m_opacity)]_vars

\* a button painted half way through the animation, its background strictly between the
\* cached and the hover colour
C2_Witness ==
   \E i \in DOMAIN buttons :
      LET b == buttons[i]
          target == BackgroundPalette(b, settings).hover
      IN  /\ AnimatedHoverApplies(b, settings)
          /\ 0 < b.m_opacity /\ b.m_opacity < OpacityDen
          /\ b.m_preAnimationBackgroundColor.v /\ target.v
          /\ b.m_backgroundColor = KMix(b.m_preAnimationBackgroundColor, target, b.m_opacity, OpacityDen)
          /\ b.m_backgroundColor \notin {b.m_preAnimationBackgroundColor, target}

\* C3 as stated: with a positive animation duration, after every hover change and every
\* press change the opacity animation is running
C3_HoverAndPressRunAnimation ==
   [][\A i \in DOMAIN buttons :
         (settings.animationsDuration > 0
          /\ (buttons'[i].hovered # buttons[i].hovered \/ buttons'[i].pressed # buttons[i].pressed))
            => buttons'[i].running]_vars

\* C4: every paint resolves the background first, the foreground with the contrast
\* colour that background resolution put out, the low contrast flag from that background,
\* the outline with that fresh flag; and the shapes and the icon it paints use these colours
C4_PaintResolvesInOrder ==
   [][\A i \in DOMAIN buttons :
         PaintStep(i)
            => LET b == buttons[i]
                   p == buttons'[i]
                   bg == backgroundColor(b, settings, FALSE)
               IN  /\ p.m_backgroundColor = bg.color
                   /\ p.m_foregroundColor = foregroundColor(b, settings, bg.foregroundContrastedColor)
                   /\ p.m_lowContrastBetweenTitleBarAndBackground = LowContrast(settings, p.m_backgroundColor)
                   /\ p.m_outlineColor
                         = outlineColor([b EXCEPT !.m_lowContrastBetweenTitleBarAndBackground
                                                     = LowContrast(settings, p.m_backgroundColor)],
                                        settings, FALSE)
                   /\ p.canvas.painted
                   /\ p.canvas.background # "none" => p.canvas.brush = p.m_backgroundColor
                   /\ p.canvas.outlinePen.set => p.canvas.outlinePen.color = p.m_outlineColor
                   /\ p.canvas.outlineFill.v => p.canvas.outlineFill = p.m_outlineColor
                   /\ p.canvas.iconPen.set => p.canvas.iconPen.color = p.m_foregroundColor]_vars

\* a painted button whose outline is drawn only because the flag of this paint found
\* low contrast between its background and the title bar
C4_Witness ==
   \E i \in DOMAIN buttons :
      LET b == buttons[i]
      IN  /\ b.canvas.painted /\ b.hovered /\ ~b.running
          /\ b.m_lowContrastBetweenTitleBarAndBackground
          /\ b.m_backgroundColor.v /\ b.canvas.outlinePen.set
          /\ ~outlineColor([b EXCEPT !.m_lowContrastBetweenTitleBarAndBackground = FALSE],
                           settings, FALSE).v


\* the glyph C5 gives each type and checked flag
GlyphTable ==
   [ Close |-> [c \in BOOLEAN |-> "Close"],
     Minimize |-> [c \in BOOLEAN |-> "Minimize"],
     KeepBelow |-> [c \in BOOLEAN |-> "KeepBehind"],
     KeepAbove |-> [c \in BOOLEAN |-> "KeepInFront"],
     ApplicationMenu |-> [c \in BOOLEAN |-> "ApplicationMenu"],
     ContextHelp |-> [c \in BOOLEAN |-> "ContextHelp"],
     Maximize |-> [c \in BOOLEAN |-> IF c THEN "Restore" ELSE "Maximize"],
     OnAllDesktops |-> [c \in BOOLEAN |-> IF c THEN "PinnedOnAllDesktops" ELSE "PinOnAllDesktops"],
     Shade |-> [c \in BOOLEAN |-> IF c THEN "UnShade" ELSE "Shade"],
     Menu |-> [c \in BOOLEAN |-> "ClientIcon"],
     Custom |-> [c \in BOOLEAN |-> "none"] ]

\* C5 as stated: every paint draws the glyph of the button's type and checked flag (the
\* client's icon for the menu button, nothing for a type without a glyph), whatever
\* else holds
C5_GlyphByTypeAndChecked ==
   [][\A i \in DOMAIN buttons :
         PaintStep(i) => buttons'[i].canvas.glyph = GlyphTable[buttons[i].type][buttons[i].checked]]_vars

\* C5 amended: a paint that resolved a valid foreground colour draws the glyph of the
\* button's type and checked flag; a paint that resolved an invalid foreground colour
\* draws no glyph; the menu button paints the client's icon in either case
C5_GlyphWhenForegroundValid ==
   [][\A i \in DOMAIN buttons :
         PaintStep(i)
            => buttons'[i].canvas.glyph
                  = IF buttons[i].type = "Menu" \/ buttons'[i].m_foregroundColor.v
                    THEN GlyphTable[buttons[i].type][buttons[i].checked] ELSE "none"]_vars

\* a checked Maximize button painted with the restore glyph
C5_Witness ==
   \E i \in DOMAIN buttons :
      /\ buttons[i].type = "Maximize" /\ buttons[i].checked
      /\ buttons[i].canvas.painted /\ buttons[i].m_foregroundColor.v
      /\ buttons[i].canvas.glyph = "Restore"

\* C6: a paint of a button that is not a GTK CSD button sets the icon pen and the
\* background outline pen cosmetic, of width PenWidth::Symbol times the device pixel
\* ratio this paint determined (the system scale factor on X11, the painter's ratio
\* otherwise); a paint of a GTK CSD button sets the icon pen non-cosmetic, of width
\* PenWidth::Symbol.  Widths are in hundredths of PenWidth::Symbol.
C6_PenWidths ==
   [][\A i \in DOMAIN buttons :
         PaintStep(i)
            => LET b == buttons[i]
                   cv == buttons'[i].canvas
               IN  \E painterDpr \in DevicePixelRatios :
                      LET dpr == IF settings.isPlatformX11 THEN settings.systemScaleFactor
                                 ELSE painterDpr
                      IN  IF b.m_isGtkCsdButton
                          THEN cv.iconPen.set => (~cv.iconPen.cosmetic /\ cv.iconPen.width = 100)
                          ELSE /\ buttons'[i].m_devicePixelRatio = dpr
                               /\ cv.iconPen.set => (cv.iconPen.cosmetic /\ cv.iconPen.width = dpr)
                               /\ cv.outlinePen.set
                                     => (cv.outlinePen.cosmetic /\ cv.outlinePen.width = dpr)]_vars

\* a button on Wayland painted at twice the scale: icon and outline pens twice as wide
C6_Witness ==
   \E i \in DOMAIN buttons :
      LET b == buttons[i]
      IN  /\ ~b.m_isGtkCsdButton /\ ~settings.isPlatformX11 /\ settings.systemScaleFactor = 100
          /\ b.canvas.iconPen.set /\ b.canvas.iconPen.cosmetic /\ b.canvas.iconPen.width = 200
          /\ b.canvas.outlinePen.set /\ b.canvas.outlinePen.cosmetic
          /\ b.canvas.outlinePen.width = 200


\* C7 as stated: with colorizeThinWindowOutlineWithButton enabled and no standalone
\* button, the thin window outline override is on whenever a button of the decoration
\* is hovered or pressed
C7_OverrideOnWhileHoveredOrPressed ==
   (/\ settings.colorizeThinWindowOutlineWithButton
    /\ \A i \in DOMAIN buttons : ~buttons[i].standAlone
    /\ \E i \in DOMAIN buttons : buttons[i].hovered \/ buttons[i].pressed)
      => deco.thinWindowOutlineOverride


\* C8 as stated: for each title bar, a save writes the opacity the UI shows if and only
\* if that bar's scheme colour is opaque or that bar's own override checkbox is
\* checked; otherwise the stored opacity stays as loaded
C8_SaveWritesOwnOpacity ==
   [][(Apply \/ Accept)
         => LET d == dialog
                ownActive == ~d.m_translucentActiveSchemeColor \/ d.ui.overrideActiveTitleBarOpacity
                ownInactive == ~d.m_translucentInactiveSchemeColor \/ d.ui.overrideInactiveTitleBarOpacity
            IN  /\ dialog'.config.activeTitlebarOpacity
                      = IF ownActive THEN d.ui.activeTitlebarOpacity
                        ELSE d.config.activeTitlebarOpacity
                /\ dialog'.config.inactiveTitlebarOpacity
                      = IF ownInactive THEN d.ui.inactiveTitlebarOpacity
                        ELSE d.config.inactiveTitlebarOpacity]_vars


\* a value the user can edit differs from the persisted one: an enabled slider, a
\* shown override checkbox, an enabled transparency checkbox
EditableDiffers(d) ==
   \/ ActiveOpacityEnabled(d) /\ d.ui.activeTitlebarOpacity # d.config.activeTitlebarOpacity
   \/ InactiveOpacityEnabled(d) /\ d.ui.inactiveTitlebarOpacity # d.config.inactiveTitlebarOpacity
   \/ d.m_translucentActiveSchemeColor
         /\ d.ui.overrideActiveTitleBarOpacity # d.config.overrideActiveTitleBarOpacity
   \/ d.m_translucentInactiveSchemeColor
         /\ d.ui.overrideInactiveTitleBarOpacity # d.config.overrideInactiveTitleBarOpacity
   \/ TransparencyOptionsEnabled(d)
         /\ \/ d.ui.opaqueMaximizedTitlebars # d.config.opaqueMaximizedTitlebars
            \/ d.ui.blurTransparentTitlebars # d.config.blurTransparentTitlebars
            \/ d.ui.applyOpacityToHeader # d.config.applyOpacityToHeader

\* C9 as stated: once the dialog is loaded, Apply is enabled whenever a value the user
\* can edit differs from the persisted value, after any edits, Restore Defaults, Reset
\* and Apply
C9_ApplyEnabledWhenUiDiffers ==
   (dialog.open /\ dialog.m_loaded /\ EditableDiffers(dialog)) => dialog.m_changed


\* the settings that differ from s in the Close-specific background flags only
CloseFlagVariants(s) ==
   { [s EXCEPT !.drawCloseBackgroundAlways = a, !.drawCloseBackgroundOnHover = h,
               !.drawCloseBackgroundOnFocus = f] : a \in BOOLEAN, h \in BOOLEAN, f \in BOOLEAN }

\* C10 as stated: a button that is not Close resolves the same foreground colour under
\* settings that differ only in drawCloseBackgroundAlways, drawCloseBackgroundOnHover
\* or drawCloseBackgroundOnFocus, in every interaction state
C10_ForegroundIgnoresCloseFlags ==
   \A i \in DOMAIN buttons :
      buttons[i].type # "Close"
         => \A s \in CloseFlagVariants(settings) :
               ResolveColors(buttons[i], s).m_foregroundColor
                  = ResolveColors(buttons[i], settings).m_foregroundColor


\* the draw-on-focus flag of the background that applies to a button
BackgroundOnFocusFlag(b, s) ==
   IF b.type = "Close" THEN s.drawCloseBackgroundOnFocus ELSE s.drawBackgroundOnFocus

\* C11 as stated: a paint of a pressed button that is not checked resolves a valid
\* background only if the draw-on-focus flag that applies to the button is set; with
\* the flag unset the background is invalid and no background is painted
C11_PressedBackgroundNeedsFocusFlag ==
   [][\A i \in DOMAIN buttons :
         (PaintStep(i) /\ buttons[i].pressed /\ ~buttons[i].checked
          /\ ~BackgroundOnFocusFlag(buttons[i], settings))
            => /\ ~buttons'[i].m_backgroundColor.v
               /\ ~buttons'[i].canvas.brush.v]_vars

\* the cached pre-animation colours of a button
PreAnimationColors(b) ==
   <<b.m_preAnimationForegroundColor, b.m_preAnimationBackgroundColor,
     b.m_preAnimationOutlineColor>>

\* the button at rest: neither hovered nor pressed, its animation stopped
AtRest(b) == [b EXCEPT !.hovered = FALSE, !.pressed = FALSE, !.running = FALSE]

\* C12 as stated: with fixed settings the cached pre-animation colours of a button, once
\* a paint has written them, are the colours the resolvers give for the button when it
\* is neither hovered nor pressed, after any sequence of hover, press, release, animation
\* step and paint
C12_CacheHoldsRestingColors ==
   \A i \in DOMAIN buttons :
      (buttons[i].canvas.painted /\ buttons[i].m_preAnimationForegroundColor.v)
         => PreAnimationColors(buttons[i]) = PaintColors(AtRest(buttons[i]), settings)

\* C12 amended: the cached pre-animation colours change only in a paint made while the
\* animation is not running and the button is not hovered, and then they are the colours
\* that paint resolved (the pressed colours when the button is pressed); every other
\* step leaves them as they were
C12_CacheHoldsLastUnhoveredPaint ==
   [][\A i \in DOMAIN buttons :
         IF PaintStep(i) /\ ~buttons[i].running /\ ~buttons[i].hovered
         THEN PreAnimationColors(buttons'[i]) = Colors3(buttons'[i])
         ELSE PreAnimationColors(buttons'[i]) = PreAnimationColors(buttons[i])]_vars

\* a paint of a pressed button the pointer has left has cached the pressed colours, which
\* differ from the colours of the button at rest
C12_Witness ==
   \E i \in DOMAIN buttons :
      /\ buttons[i].canvas.painted /\ buttons[i].pressed
      /\ ~buttons[i].hovered /\ ~buttons[i].running
      /\ PreAnimationColors(buttons[i]) = Colors3(buttons[i])
      /\ PreAnimationColors(buttons[i]) # PaintColors(AtRest(buttons[i]), settings)

\* C13 as stated: the paint of a Menu button leaves the global icon loader's custom
\* palette as it was before the paint: none stays none, and a custom palette stays the
\* same custom palette
C13_MenuPaintRestoresIconPalette ==
   [][\A i \in DOMAIN buttons :
         (PaintStep(i) /\ buttons[i].type = "Menu")
            => deco'.iconLoaderPalette = deco.iconLoaderPalette]_vars

\* the button's hover or press state turns on in this step
TurnsOn(i) ==
   \/ ~buttons[i].hovered /\ buttons'[i].hovered
   \/ ~buttons[i].pressed /\ buttons'[i].pressed

\* the colour a paint of the button resolves for the thin window outline: its outline
\* colour, or its background colour when the outline colour is not valid
PaintedOutlineColor(b, s) ==
   LET p == ResolveColors(b, s) IN ValidOr(p.m_outlineColor, p.m_backgroundColor)

\* C14 as stated: the colour sent to the decoration with an on flag when a painted button
\* becomes hovered or pressed is the colour a paint of the button in the same hovered and pressed
\* state resolves without animation: the outline colour computed with the low contrast
\* flag of that state, or the background colour when that outline colour is invalid
C14_OnColorIsPaintColor ==
   [][\A i \in DOMAIN buttons :
         (/\ TurnsOn(i) /\ buttons[i].canvas.painted
          /\ settings.colorizeThinWindowOutlineWithButton /\ ~buttons[i].standAlone)
            => /\ deco'.thinWindowOutlineOverride
               /\ deco'.thinWindowOutlineOverrideColor
                     = PaintedOutlineColor([buttons'[i] EXCEPT !.running = FALSE], settings)]_vars

\* C15: when the hover state of a button turns off while the button is still pressed,
\* updateThinWindowOutlineWithButtonColor sends nothing to the decoration: the thin
\* window outline override and its colour stay as they were
C15_NoOffWhilePressed ==
   [][\A i \in DOMAIN buttons :
         (buttons[i].hovered /\ ~buttons'[i].hovered /\ buttons'[i].pressed)
            => /\ deco'.thinWindowOutlineOverride = deco.thinWindowOutlineOverride
               /\ deco'.thinWindowOutlineOverrideColor = deco.thinWindowOutlineOverrideColor]_vars

\* the pointer has left a pressed button, no other button is hovered or pressed, and the
\* override is still on with the colour of the button
C15_Witness ==
   \E i \in DOMAIN buttons :
      /\ buttons[i].pressed /\ ~buttons[i].hovered
      /\ \A j \in DOMAIN buttons : j # i => ~buttons[j].hovered /\ ~buttons[j].pressed
      /\ settings.colorizeThinWindowOutlineWithButton /\ ~buttons[i].standAlone
      /\ deco.thinWindowOutlineOverride /\ deco.thinWindowOutlineOverrideColor.v

\* the animation of the button has stopped at the given opacity
StoppedAt(b, opacity) == ~b.running /\ b.m_opacity = opacity

\* C16: with a positive animation duration, once the hover state stops changing the
\* animation eventually stops, with opacity 1.0 if the button is hovered and 0.0 if it
\* is not; and a hover change that arrives while the animation is running sets its
\* direction (Forward when hovered, Backward when not) and leaves it running at the
\* current time and opacity it had
C16_AnimationSettles ==
   /\ <>[](buttons[1].hovered) => <>[]StoppedAt(buttons[1], OpacityDen)
   /\ <>[](~buttons[1].hovered) => <>[]StoppedAt(buttons[1], 0)
   /\ [][\A i \in DOMAIN buttons :
            (buttons[i].running /\ buttons'[i].hovered # buttons[i].hovered)
               => /\ buttons'[i].running
                  /\ buttons'[i].direction = IF buttons'[i].hovered THEN "Forward" ELSE "Backward"
                  /\ buttons'[i].currentTime = buttons[i].currentTime
                  /\ buttons'[i].m_opacity = buttons[i].m_opacity]_vars

\* the animation ran forward to its end, was started backward when the pointer left, and
\* the pointer came back before its first update: it runs forward from the end
C16_Witness ==
   \E i \in DOMAIN buttons :
      /\ settings.animationsDuration > 0
      /\ buttons[i].hovered /\ buttons[i].running /\ buttons[i].direction = "Forward"
      /\ buttons[i].currentTime = Steps /\ buttons[i].m_opacity = OpacityDen

\* the normal, hover and focus colours of a palette
PaletteColors(pal) == {pal.normal, pal.hover, pal.focus}

\* C17: while the animation duration is not positive a hover change neither starts the
\* animation nor changes its direction, time or opacity; the animation is never running;
\* and every colour a paint resolves is a normal, hover or focus colour of the resolver's
\* palette, never an interpolation (the foreground is the invalid colour when no icon
\* state applies)
C17_NoAnimationWithoutDuration ==
   [][\A i \in DOMAIN buttons :
         LET b == buttons[i]
             p == buttons'[i]
         IN  ~(settings.animationsDuration > 0)
                => /\ ~b.running /\ ~p.running
                   /\ p.hovered # b.hovered
                         => /\ p.direction = b.direction /\ p.currentTime = b.currentTime
                            /\ p.m_opacity = b.m_opacity
                   /\ PaintStep(i)
                         => /\ p.m_backgroundColor \in PaletteColors(BackgroundPalette(b, settings))
                            /\ p.m_outlineColor \in PaletteColors(OutlinePalette(p, settings))
                            /\ p.m_foregroundColor
                                  \in PaletteColors(ForegroundPalette(b, settings,
                                          backgroundColor(b, settings, FALSE).foregroundContrastedColor))
                                         \cup {Invalid}]_vars

\* animations disabled: a hovered button painted with the hover background, which differs
\* from its normal background, its animation stopped at the opacity it was created with
C17_Witness ==
   \E i \in DOMAIN buttons :
      /\ ~(settings.animationsDuration > 0)
      /\ buttons[i].hovered /\ ~buttons[i].pressed /\ ~buttons[i].checked
      /\ ~buttons[i].running /\ buttons[i].m_opacity = 0
      /\ buttons[i].canvas.painted /\ buttons[i].m_backgroundColor.v
      /\ buttons[i].m_backgroundColor = BackgroundPalette(buttons[i], settings).hover
      /\ buttons[i].m_backgroundColor # BackgroundPalette(buttons[i], settings).normal

\* the toggle buttons whose checked state the resolvers test first
ToggleTypes == {"KeepAbove", "KeepBelow", "Shade"}

\* C18: for a checked KeepAbove, KeepBelow or Shade button and fixed settings, the
\* foreground, background and outline colours the resolvers return to a paint are the
\* same in every combination of hovered, pressed and running animation
C18_CheckedToggleIgnoresHoverPress ==
   \A i \in DOMAIN buttons :
      (buttons[i].checked /\ buttons[i].type \in ToggleTypes)
         => \A h \in BOOLEAN, p \in BOOLEAN, r \in BOOLEAN :
               PaintColors([buttons[i] EXCEPT !.hovered = h, !.pressed = p, !.running = r], settings)
                  = PaintColors(buttons[i], settings)

\* a checked toggle button painted while pressed in mid-animation, with a valid
\* background that is the one a paint of the button at rest resolves
C18_Witness ==
   \E i \in DOMAIN buttons :
      /\ buttons[i].checked /\ buttons[i].type \in ToggleTypes
      /\ buttons[i].hovered /\ buttons[i].pressed /\ buttons[i].running
      /\ 0 < buttons[i].m_opacity /\ buttons[i].m_opacity < OpacityDen
      /\ buttons[i].canvas.painted /\ buttons[i].m_backgroundColor.v
      /\ Colors3(buttons[i]) = PaintColors(AtRest(buttons[i]), settings)

\* none of the icon states applies to the button
NoIconState(b, s) ==
   /\ ~(b.pressed /\ s.drawIconOnFocus)
   /\ ~(b.checked /\ b.type \in {"KeepAbove", "KeepBelow", "Shade", "OnAllDesktops"})
   /\ ~((b.running \/ b.hovered) /\ s.drawIconOnHover)
   /\ ~s.drawIconAlways

\* C19: a paint resolves an invalid foreground colour exactly when none of the icon states
\* applies (not pressed with drawIconOnFocus, not a checked KeepAbove, KeepBelow, Shade
\* or OnAllDesktops button, neither animating nor hovered with drawIconOnHover, and
\* drawIconAlways false), and drawIcon then sets no icon pen and renders no glyph; in
\* every other state the foreground colour is valid
C19_ForegroundInvalidIffNoIconState ==
   [][\A i \in DOMAIN buttons :
         PaintStep(i)
            => /\ buttons'[i].m_foregroundColor.v <=> ~NoIconState(buttons[i], settings)
               /\ (NoIconState(buttons[i], settings) /\ buttons[i].type # "Menu")
                     => ~buttons'[i].canvas.iconPen.set /\ buttons'[i].canvas.glyph = "none"
               /\ (~NoIconState(buttons[i], settings) /\ buttons[i].type \notin {"Menu", "Custom"})
                     => buttons'[i].canvas.iconPen.set /\ buttons'[i].canvas.glyph # "none"]_vars

\* a hovered Close button painted with drawIconOnHover unset and drawIconAlways unset:
\* no foreground colour, no glyph
C19_Witness ==
   \E i \in DOMAIN buttons :
      /\ buttons[i].type = "Close" /\ buttons[i].hovered /\ ~buttons[i].pressed
      /\ ~settings.drawIconOnHover /\ ~settings.drawIconAlways /\ settings.drawIconOnFocus
      /\ buttons[i].canvas.painted /\ ~buttons[i].m_foregroundColor.v
      /\ ~buttons[i].canvas.iconPen.set /\ buttons[i].canvas.glyph = "none"

\* the negative (red) colours of g_decorationColors
NegativeBackgrounds(s) ==
   LET g == DecorationColors(s)
   IN  { g.negative, g.negativeSaturated, g.negativeLessSaturated, g.fullySaturatedNegative,
         g.negativeReducedOpacityBackground, g.negativeReducedOpacityOutline,
         g.negativeReducedOpacityLessSaturatedBackground }

\* C20: for a hovered Close button that is neither pressed nor animating, with
\* drawIconOnHover and drawCloseBackgroundOnHover set, the resolvers return a white
\* foreground and one of the negative (red) colours as background, whatever the
\* background colours setting, the translucency, redAlwaysShownClose and the other
\* behavioural flags
C20_HoveredCloseIsWhiteOnRed ==
   \A i \in DOMAIN buttons :
      (/\ buttons[i].type = "Close"
       /\ buttons[i].hovered /\ ~buttons[i].pressed /\ ~buttons[i].running
       /\ settings.drawIconOnHover /\ settings.drawCloseBackgroundOnHover)
         => /\ PaintColors(buttons[i], settings)[1] = White
            /\ PaintColors(buttons[i], settings)[2] \in NegativeBackgrounds(settings)

\* a hovered Close button painted white on red with accent colours, translucent
\* backgrounds, no background drawn at rest and no background on press
C20_Witness ==
   \E i \in DOMAIN buttons :
      /\ buttons[i].type = "Close"
      /\ buttons[i].hovered /\ ~buttons[i].pressed /\ ~buttons[i].running
      /\ settings.drawIconOnHover /\ settings.drawCloseBackgroundOnHover
      /\ ~settings.drawCloseBackgroundOnFocus /\ ~settings.drawCloseBackgroundAlways
      /\ IsAccent(settings) /\ settings.translucentButtonBackgrounds
      /\ buttons[i].canvas.painted
      /\ buttons[i].m_foregroundColor = White
      /\ buttons[i].m_backgroundColor \in NegativeBackgrounds(settings)
====
